---- MODULE Spec2Model ----
(***************************************************************************)
(* Receipt text parser of chaif-backend (src/receipts/receiptOcr.ts):      *)
(* parseReceiptTextDeterministic as a state machine over character         *)
(* sequences, with the regular expressions of the source written out as    *)
(* operators, and scoreConfidence as a pure function over exact rationals. *)
(*                                                                         *)
(* A text is a sequence of one-character strings.  Offsets the source      *)
(* keeps (RegExp index, slice arguments) are 0-based as in the source;     *)
(* sequence positions are 1-based, so offset k is position k + 1.          *)
(* Money amounts are integers in hundredths.                               *)
(***************************************************************************)
EXTENDS Integers, Sequences, FiniteSets, TLC

VARIABLES
    pc,               \* position inside parseReceiptTextDeterministic
    fullText,         \* the argument
    rawLines,         \* rawLines, after the cleaner
    ri,               \* index of the for..of loop over rawLines
    logical,          \* logical: string[]
    pending,          \* pending: string | null
    logicalFixed,     \* logicalFixed
    produceMergedIdx, \* produceMergedIdx (0-based output indexes)
    vendor,           \* receipt.vendor
    purchaseDate,     \* receipt.purchaseDate
    total,            \* receipt.total
    tax,              \* receipt.tax
    li,               \* index of the item loop (0-based)
    items,            \* items / finalItems
    pricedLineCount,  \* pricedLineCount
    lastTok,          \* totalTok of the line the item loop handled last
    lastNoPrice,      \* that line with the token span removed, before trim()
    confidence,       \* result.confidence
    needsReview,      \* result.needsReview
    minConfEnv,       \* process.env.RECEIPT_OCR_MIN_CONFIDENCE as read
    sc,               \* scoreConfidence alone: its arguments and results
    call,             \* another function alone: its arguments, locals and result
    inv,              \* two invocations of the stitcher and the produce merger
    db,               \* the database: committed rows, row locks, uncommitted writes
    req               \* the HTTP requests in flight: position, locals, response

parseVars == <<pc, fullText, rawLines, ri, logical, pending, logicalFixed,
               produceMergedIdx, vendor, purchaseDate, total, tax, li, items,
               pricedLineCount, lastTok, lastNoPrice, confidence, needsReview,
               minConfEnv>>
vars == <<parseVars, sc, call, inv, db, req>>

\* v named inside F: a local constant of the source, computed once
With(v, F(_)) == F(v)

\* null is <<>> and a value v is <<v>>
None == <<>>
Some(v) == <<v>>

(***************************************************************************)
(* Characters and strings                                                  *)
(***************************************************************************)
Chars(s) == [i \in 1..Len(s) |-> SubSeq(s, i, i)]

NL == "\n"
CR == "\r"
TAB == "\t"
NBSP == "U+00A0"
UMINUS == "U+2212"

UpperSeq == Chars("ABCDEFGHIJKLMNOPQRSTUVWXYZ")
LowerSeq == Chars("abcdefghijklmnopqrstuvwxyz")
Upper == {UpperSeq[i] : i \in 1..26}
Lower == {LowerSeq[i] : i \in 1..26}
Letter == Upper \cup Lower
Digit == {"0", "1", "2", "3", "4", "5", "6", "7", "8", "9"}
AlNum == Letter \cup Digit
WordCh == AlNum \cup {"_"}
Ws == {" ", TAB, NL, CR, NBSP}

LowerOf == [c \in Upper |-> LowerSeq[CHOOSE i \in 1..26 : UpperSeq[i] = c]]
UpperOf == [c \in Lower |-> UpperSeq[CHOOSE i \in 1..26 : LowerSeq[i] = c]]
DigitVal == [c \in Digit |-> CHOOSE n \in 0..9 : Chars("0123456789")[n + 1] = c]

toLowerCase(s) == [i \in 1..Len(s) |-> IF s[i] \in Upper THEN LowerOf[s[i]] ELSE s[i]]

Min2(a, b) == IF a <= b THEN a ELSE b
Max2(a, b) == IF a >= b THEN a ELSE b
Abs(a) == IF a < 0 THEN 0 - a ELSE a

\* String.prototype.slice(from, to) with 0-based offsets
slice(s, from, to) == SubSeq(s, Min2(from, Len(s)) + 1, Min2(to, Len(s)))
sliceFrom(s, from) == SubSeq(s, Min2(from, Len(s)) + 1, Len(s))

\* position i of s holds a character of set
Has(s, i, set) == i >= 1 /\ i <= Len(s) /\ s[i] \in set

\* w occurs in s at position i
StartsAt(s, i, w) ==
    /\ i >= 1
    /\ i + Len(w) - 1 <= Len(s)
    /\ \A k \in 1..Len(w) : s[i + k - 1] = w[k]

includes(s, w) == \E i \in 1..(Len(s) + 1) : StartsAt(s, i, w)

\* \b between position i - 1 and position i
WB(s, i) ==
    LET before == i > 1 /\ i - 1 <= Len(s) /\ s[i - 1] \in WordCh
        after == i >= 1 /\ i <= Len(s) /\ s[i] \in WordCh
    IN before # after

RECURSIVE SkipWs(_, _)
\* \s* from position i: the position after the run of whitespace
SkipWs(s, i) == IF i <= Len(s) /\ s[i] \in Ws THEN SkipWs(s, i + 1) ELSE i

RECURSIVE SkipDigits(_, _)
\* \d* from position i: the position after the run of digits
SkipDigits(s, i) == IF i <= Len(s) /\ s[i] \in Digit THEN SkipDigits(s, i + 1) ELSE i

RECURSIVE SkipBackWs(_, _)
SkipBackWs(s, i) == IF i >= 1 /\ s[i] \in Ws THEN SkipBackWs(s, i - 1) ELSE i

\* String.prototype.trim
trim(s) == SubSeq(s, SkipWs(s, 1), SkipBackWs(s, Len(s)))

RECURSIVE CollapseFrom(_, _)
\* .replace(/\s{2,}/g, " ") from position i
CollapseFrom(s, i) ==
    IF i > Len(s) THEN <<>>
    ELSE IF SkipWs(s, i) - i >= 2 THEN <<" ">> \o CollapseFrom(s, SkipWs(s, i))
    ELSE <<s[i]>> \o CollapseFrom(s, i + 1)

collapseSpaces(s) == CollapseFrom(s, 1)

\* .replace(/c/g, d) for one character c
ReplaceCh(s, c, d) == [i \in 1..Len(s) |-> IF s[i] = c THEN d ELSE s[i]]

RECURSIVE SplitAt(_, _, _)
\* String.prototype.split(sep) for a one-character separator, from position i
SplitAt(s, sep, i) ==
    With({k \in i..Len(s) : s[k] = sep}, LAMBDA ends :
        IF ends = {} THEN <<SubSeq(s, i, Len(s))>>
        ELSE With(CHOOSE k \in ends : \A j \in ends : k <= j, LAMBDA k :
                 <<SubSeq(s, i, k - 1)>> \o SplitAt(s, sep, k + 1)))

RECURSIVE JoinWith(_, _)
\* Array.prototype.join(sep)
JoinWith(ls, sep) ==
    IF Len(ls) = 0 THEN <<>>
    ELSE IF Len(ls) = 1 THEN ls[1]
    ELSE ls[1] \o sep \o JoinWith(Tail(ls), sep)

MapSeq(ls, f(_)) == [i \in 1..Len(ls) |-> f(ls[i])]

\* a word of `words` at position i, followed by \b: the position after it, or 0
WordEnd(s, i, words) ==
    With({w \in words : StartsAt(s, i, w) /\ WB(s, i + Len(w))}, LAMBDA hit :
        IF hit = {} THEN 0 ELSE i + Len(CHOOSE w \in hit : TRUE))

(***************************************************************************)
(* Phrase patterns: \b(p1|p2|...)\b where each p is a concatenation of     *)
(* literals, \s*, \s+ and one optional character.                          *)
(***************************************************************************)
Lit(str) == [k |-> "lit", w |-> Chars(str)]
WsStar == [k |-> "ws*", w |-> <<>>]
WsPlus == [k |-> "ws+", w |-> <<>>]
Opt(str) == [k |-> "opt", w |-> Chars(str)]

RECURSIVE PhraseEnd(_, _, _)
\* the position after phrase p matched at position i, or 0
PhraseEnd(s, i, p) ==
    IF Len(p) = 0 THEN i
    ELSE With(IF p[1].k = "lit" THEN (IF StartsAt(s, i, p[1].w) THEN i + Len(p[1].w) ELSE 0)
              ELSE IF p[1].k = "ws*" THEN SkipWs(s, i)
              ELSE IF p[1].k = "ws+" THEN (IF SkipWs(s, i) > i THEN SkipWs(s, i) ELSE 0)
              ELSE (IF StartsAt(s, i, p[1].w) THEN i + Len(p[1].w) ELSE i),
              LAMBDA j : IF j = 0 THEN 0 ELSE PhraseEnd(s, j, Tail(p)))

\* /\b(p1|p2|...)\b/.test(s)
TestPhrases(s, ps) ==
    \E i \in 1..Len(s) :
        /\ WB(s, i)
        /\ \E p \in ps : With(PhraseEnd(s, i, p), LAMBDA e : e # 0 /\ WB(s, e))

(***************************************************************************)
(* Money tokens and numbers                                                *)
(***************************************************************************)
\* /-?\$?\d{1,7}(?:[.,]\d{2})-?/ matched at position i: the position after
\* the match, or 0.  The digits are followed by [.,], so the run of digits
\* is taken whole and no shorter match exists.
MoneyEnd(s, i) ==
    With(IF Has(s, i, {"-"}) THEN i + 1 ELSE i, LAMBDA a :
    With(IF Has(s, a, {"$"}) THEN a + 1 ELSE a, LAMBDA b :
    With(SkipDigits(s, b), LAMBDA c :
        IF /\ i >= 1
           /\ c - b >= 1
           /\ c - b <= 7
           /\ Has(s, c, {".", ","})
           /\ Has(s, c + 1, Digit)
           /\ Has(s, c + 2, Digit)
        THEN (IF Has(s, c + 3, {"-"}) THEN c + 4 ELSE c + 3)
        ELSE 0)))

RECURSIVE MoneyScan(_, _)
\* the successive matches of the money expression with the g flag, from
\* position i, as 0-based [start, end) offsets
MoneyScan(s, i) ==
    IF i > Len(s) THEN <<>>
    ELSE With(MoneyEnd(s, i), LAMBDA e :
             IF e # 0 THEN <<[start |-> i - 1, end |-> e - 1]>> \o MoneyScan(s, e)
             ELSE MoneyScan(s, i + 1))

matchAllMoney(s) == MoneyScan(s, 1)

hasMoneyToken(s) == \E i \in 1..Len(s) : MoneyEnd(s, i) # 0

RECURSIVE DigitsValue(_)
DigitsValue(ds) ==
    IF Len(ds) = 0 THEN 0
    ELSE DigitsValue(SubSeq(ds, 1, Len(ds) - 1)) * 10 + DigitVal[ds[Len(ds)]]

RECURSIVE Pow10(_)
Pow10(n) == IF n <= 0 THEN 1 ELSE 10 * Pow10(n - 1)

\* Number(str) for a string of digits, "." and "-": None for NaN, else the
\* value in hundredths (the strings that reach it carry at most two decimals).
NumberOf(str) ==
    With(Len(str) > 0 /\ str[1] = "-", LAMBDA neg :
    With(IF neg THEN Tail(str) ELSE str, LAMBDA body :
    With({k \in 1..Len(body) : body[k] = "."}, LAMBDA dots :
    With(IF dots = {} THEN Len(body) + 1 ELSE CHOOSE k \in dots : TRUE, LAMBDA dot :
    With(SubSeq(body, 1, dot - 1), LAMBDA ip :
    With(SubSeq(body, dot + 1, Len(body)), LAMBDA fp :
        IF /\ \A k \in 1..Len(body) : body[k] \in Digit \cup {"."}
           /\ Cardinality(dots) <= 1
           /\ Len(ip) + Len(fp) >= 1
           /\ Len(fp) <= 2
        THEN With(DigitsValue(ip) * 100 + DigitsValue(fp) * Pow10(2 - Len(fp)), LAMBDA mag :
                 Some(IF neg THEN 0 - mag ELSE mag))
        ELSE None))))))

safeParseNumber(s) ==
    With(trim(s), LAMBDA raw0 :
    With(Len(raw0) >= 2 /\ raw0[1] = "(" /\ raw0[Len(raw0)] = ")", LAMBDA paren :
    With(ReplaceCh(IF paren THEN trim(SubSeq(raw0, 2, Len(raw0) - 1)) ELSE raw0, UMINUS, "-"),
         LAMBDA raw :
    With(SelectSeq(raw, LAMBDA c : c \in Digit \cup {".", "-"}), LAMBDA cleaned0 :
    With(IF Len(cleaned0) > 0 /\ cleaned0[Len(cleaned0)] = "-" /\ cleaned0[1] # "-"
         THEN <<"-">> \o SubSeq(cleaned0, 1, Len(cleaned0) - 1)
         ELSE cleaned0, LAMBDA cleaned :
    With(NumberOf(cleaned), LAMBDA n :
        IF Len(s) = 0 \/ Len(cleaned0) = 0 \/ n = None THEN None
        ELSE IF paren THEN Some(0 - Abs(n[1])) ELSE n))))))

UnitsPerUnit == {Chars("lb"), Chars("lbs"), Chars("kg"), Chars("g"), Chars("oz"),
                 Chars("ea"), Chars("ct"), Chars("pc"), Chars("pcs")}

\* /^\s*\/\s*(unit)\b/.test(s) from position i
SlashUnitAt(s, i, units) ==
    With(SkipWs(s, i), LAMBDA a :
        Has(s, a, {"/"}) /\ WordEnd(s, SkipWs(s, a + 1), units) # 0)

isPerUnitMoneyToken(line, tokenEndIndex) ==
    LET tail == toLowerCase(slice(line, tokenEndIndex, tokenEndIndex + 14))
    IN SlashUnitAt(tail, 1, UnitsPerUnit)

\* the hits of pickLineTotalToken, in order
LineTotalHits(line) ==
    With(matchAllMoney(line), LAMBDA ms :
        SelectSeq([k \in 1..Len(ms) |->
                      [value |-> safeParseNumber(slice(line, ms[k].start, ms[k].end)),
                       raw |-> slice(line, ms[k].start, ms[k].end),
                       start |-> ms[k].start,
                       end |-> ms[k].end,
                       perUnit |-> isPerUnitMoneyToken(line, ms[k].end)]],
                  LAMBDA h : h.value # None))

pickLineTotalToken(line) ==
    With(LineTotalHits(line), LAMBDA hits :
    With({k \in 1..Len(hits) : ~hits[k].perUnit}, LAMBDA plain :
        IF Len(hits) = 0 THEN None
        ELSE IF plain # {} THEN Some(hits[CHOOSE k \in plain : \A j \in plain : j <= k])
        ELSE Some(hits[Len(hits)])))

\* the rest of extractTailAmountAndFlag's expression after the amount:
\* (?:\s+([A-Z]{1,3}))?\s*$ from position e; the flag, or None when no match
TailFlag(t, e) ==
    With(SkipWs(t, e), LAMBDA a :
        IF a > Len(t) THEN Some(<<>>)
        ELSE IF /\ a > e
                /\ Len(t) - a + 1 <= 3
                /\ \A k \in a..Len(t) : t[k] \in Upper
        THEN Some(SubSeq(t, a, Len(t)))
        ELSE None)

\* /^(.*?)(money)(?:\s+([A-Z]{1,3}))?\s*$/: the lazy prefix is the shortest
\* one after which the amount and the tail match
TailMatchAt(t, p) ==
    With(MoneyEnd(t, p), LAMBDA e :
        IF e = 0 THEN None
        ELSE With(TailFlag(t, e), LAMBDA flag :
                 IF flag = None THEN None
                 ELSE Some([prefix |-> trim(SubSeq(t, 1, p - 1)),
                            amount |-> trim(SubSeq(t, p, e - 1)),
                            flag |-> flag[1]])))

extractTailAmountAndFlag(line) ==
    With(trim(line), LAMBDA t :
    With({p \in 1..Len(t) : TailMatchAt(t, p) # None}, LAMBDA ok :
        IF ok = {} THEN None
        ELSE TailMatchAt(t, CHOOSE q \in ok : \A r \in ok : q <= r)))

hasLetter(s) == \E k \in 1..Len(s) : s[k] \in Letter

isDiscountRefRow(line) ==
    With(extractTailAmountAndFlag(line), LAMBDA ex :
        /\ ex # None
        /\ With(safeParseNumber(ex[1].amount), LAMBDA n : n # None /\ n[1] < 0)
        /\ Len(ex[1].prefix) > 0
        /\ ~hasLetter(ex[1].prefix))

(***************************************************************************)
(* Line classes of the stitcher                                            *)
(***************************************************************************)
totalsRe == {<<Lit("subtotal")>>, <<Lit("tax")>>, <<Lit("total")>>,
             <<Lit("amount due")>>, <<Lit("balance due")>>, <<Lit("change")>>}
tenderRe == {<<Lit("visa")>>, <<Lit("mastercard")>>, <<Lit("amex")>>,
             <<Lit("debit")>>, <<Lit("credit")>>}
cashRe == {<<Lit("cash")>>}
headerNoiseRe ==
    {<<Lit("orders"), WsStar, Lit("&"), WsStar, Lit("purchases")>>,
     <<Lit("member")>>, <<Lit("approved")>>, <<Lit("purchase")>>,
     <<Lit("thank"), WsStar, Lit("you")>>,
     <<Lit("customer"), WsStar, Lit("copy")>>,
     <<Lit("order"), WsStar, Lit("summary")>>,
     <<Lit("order"), WsStar, Lit("details")>>,
     <<Lit("delivered")>>,
     <<Lit("your"), WsStar, Lit("package"), WsPlus, Lit("was"), WsPlus, Lit("left")>>,
     <<Lit("sold"), WsPlus, Lit("by")>>,
     <<Lit("supplied"), WsPlus, Lit("by")>>,
     <<Lit("return"), WsPlus, Lit("item"), Opt("s")>>}

UnitsWeight == {Chars("lb"), Chars("lbs"), Chars("kg"), Chars("g"), Chars("oz")}

\* \d+(?:\.\d+)?\s*(unit)\b at position i of a lower-cased s: the offsets of
\* the match, or None.  Each greedy choice is forced by the next character.
NumberUnitAt(s, i, units) ==
    With(SkipDigits(s, i), LAMBDA a :
    With(IF Has(s, a, {"."}) /\ Has(s, a + 1, Digit) THEN SkipDigits(s, a + 1) ELSE a, LAMBDA b :
    With(SkipWs(s, b), LAMBDA c :
    With(WordEnd(s, c, units), LAMBDA e :
        IF a > i /\ e # 0
        THEN Some([index |-> i - 1, numEnd |-> b - 1, unitStart |-> c - 1, end |-> e - 1])
        ELSE None))))

\* /\b\d+(?:\.\d+)?\s*(unit)\b/i.test(l)
hasNumberUnit(l, units) ==
    With(toLowerCase(l), LAMBDA low :
        \E i \in 1..Len(low) : WB(low, i) /\ NumberUnitAt(low, i, units) # None)

\* /\/\s*(unit)\b/i.test(l)
hasSlashUnit(l, units) ==
    With(toLowerCase(l), LAMBDA low :
        \E i \in 1..Len(low) :
            low[i] = "/" /\ WordEnd(low, SkipWs(low, i + 1), units) # 0)

looksLikeSkuOrCode(l) ==
    \/ With(SkipDigits(l, 1) - 1, LAMBDA r : r >= 5 /\ r <= 13 /\ WB(l, r + 1))
    \/ \E k \in 1..2 :
           /\ k <= Len(l)
           /\ \A j \in 1..k : l[j] \in Upper
           /\ WB(l, k + 1)

looksLikeWeightOrRate(l) ==
    \/ hasNumberUnit(l, UnitsWeight)
    \/ includes(l, <<"@">>)
    \/ hasSlashUnit(l, UnitsWeight)

isSeparator(l) ==
    With(toLowerCase(l), LAMBDA low :
        \/ TestPhrases(low, totalsRe)
        \/ TestPhrases(low, tenderRe)
        \/ TestPhrases(low, cashRe)
        \/ TestPhrases(low, headerNoiseRe))

hasUsableTotal(l) ==
    With(pickLineTotalToken(l), LAMBDA totalTok : totalTok # None /\ ~totalTok[1].perUnit)

\* the stitcher that takes a discount reference row for a priced row
LineClass_noDiscountRef(l) ==
    IF isSeparator(l) THEN "separator"
    ELSE IF hasUsableTotal(l) THEN "total"
    ELSE IF looksLikeSkuOrCode(l) \/ looksLikeWeightOrRate(l) THEN "continuation"
    ELSE "name"

\* the branch of the stitching loop that handles l
LineClass(l) ==
    IF isSeparator(l) THEN "separator"
    ELSE IF isDiscountRefRow(l) THEN "discountRef"
    ELSE IF hasUsableTotal(l) THEN "total"
    ELSE IF looksLikeSkuOrCode(l) \/ looksLikeWeightOrRate(l) THEN "continuation"
    ELSE "name"

\* the join with the second line in front
joinLines_swapped(a, b) == trim(collapseSpaces(b \o <<" ">> \o a))

\* `${a} ${b}`.replace(/\s{2,}/g, " ").trim()
joinLines(a, b) == trim(collapseSpaces(a \o <<" ">> \o b))

\* flush() that clears pending without pushing it
Flushed_dropPending(lg, pend) == lg

\* flush(): the logical lines after it
Flushed(lg, pend) ==
    IF pend # None /\ Len(pend[1]) > 0
    THEN Append(lg, trim(collapseSpaces(pend[1])))
    ELSE lg

\* one pass of the stitching loop over the trimmed line l: logical and
\* pending after it
stitchStep(lg, pend, l) ==
    With(LineClass(l), LAMBDA class :
        IF class \in {"separator", "discountRef"}
        THEN [logical |-> Append(Flushed(lg, pend), l), pending |-> None]
        ELSE IF class = "total"
        THEN IF pend # None /\ Len(pend[1]) > 0
             THEN [logical |-> Append(lg, joinLines(pend[1], l)), pending |-> None]
             ELSE [logical |-> Append(lg, l), pending |-> pend]
        ELSE IF class = "continuation"
        THEN IF pend # None /\ Len(pend[1]) > 0
             THEN [logical |-> lg, pending |-> Some(joinLines(pend[1], l))]
             ELSE IF Len(lg) > 0
             THEN [logical |-> [lg EXCEPT ![Len(lg)] = joinLines(@, l)], pending |-> pend]
             ELSE [logical |-> lg, pending |-> Some(l)]
        ELSE [logical |-> Flushed(lg, pend), pending |-> Some(l)])

(***************************************************************************)
(* Raw lines, vendor and date                                              *)
(***************************************************************************)
\* /^\d+\s*\/\s*\d+$/.test(l)
isPageMarker(l) ==
    LET a == SkipDigits(l, 1)
        b == SkipWs(l, a)
        c == SkipWs(l, b + 1)
        d == SkipDigits(l, c)
    IN a > 1 /\ b <= Len(l) /\ l[b] = "/" /\ d > c /\ d = Len(l) + 1

keepRawLine(l) ==
    LET low == toLowerCase(l)
    IN /\ \E k \in 1..Len(l) : l[k] \in AlNum
       /\ ~includes(low, Chars("http://"))
       /\ ~includes(low, Chars("https://"))
       /\ ~includes(low, Chars("www."))
       /\ ~isPageMarker(trim(l))

normalizeText(t) == ReplaceCh(ReplaceCh(ReplaceCh(t, CR, NL), NBSP, " "), UMINUS, "-")

\* text.split("\n").map(trim).filter(nonempty), then the cleaner
cleanRawLines(text) ==
    LET split == MapSeq(SplitAt(text, NL, 1), trim)
        nonEmpty == SelectSeq(split, LAMBDA l : Len(l) > 0)
    IN SelectSeq(nonEmpty, keepRawLine)

preferredVendors == <<Chars("costco"), Chars("walmart"), Chars("kroger"), Chars("target"),
                      Chars("amazon"), Chars("whole foods"), Chars("heb"), Chars("aldi")>>
ignoreVendorWords == {Chars("welcome"), Chars("receipt"), Chars("thank you"),
                      Chars("customer copy"), Chars("member"), Chars("orders & purchases")}

\* pv.replace(/\b\w/g, c => c.toUpperCase())
titleCase(w) ==
    [i \in 1..Len(w) |-> IF WB(w, i) /\ w[i] \in Lower THEN UpperOf[w[i]] ELSE w[i]]

countLetters(l) == Cardinality({k \in 1..Len(l) : l[k] \in Letter})

detectVendor(lines) ==
    LET header == SubSeq(lines, 1, Min2(25, Len(lines)))
        joinedHeader == toLowerCase(JoinWith(header, <<NL>>))
        pref == {k \in 1..Len(preferredVendors) : includes(joinedHeader, preferredVendors[k])}
        pv == preferredVendors[CHOOSE k \in pref : \A j \in pref : k <= j]
        cand == {i \in 1..Min2(Len(lines), 15) :
                    /\ Len(lines[i]) >= 2
                    /\ \A w \in ignoreVendorWords : ~includes(toLowerCase(lines[i]), w)
                    /\ countLetters(lines[i]) >= 3}
    IN IF pref # {} THEN Some(IF pv = Chars("heb") THEN Chars("H-E-B") ELSE titleCase(pv))
       ELSE IF cand # {} THEN Some(lines[CHOOSE i \in cand : \A j \in cand : i <= j])
       ELSE None

NonZeroDigit == Digit \ {"0"}
DateSep == {"-", "/"}

\* the ends of (0?[1-9]|1[0-2]) at position i
MonthEnds(s, i) ==
    (IF Has(s, i, {"0"}) /\ Has(s, i + 1, NonZeroDigit) THEN {i + 2} ELSE {})
    \cup (IF Has(s, i, NonZeroDigit) THEN {i + 1} ELSE {})
    \cup (IF Has(s, i, {"1"}) /\ Has(s, i + 1, {"0", "1", "2"}) THEN {i + 2} ELSE {})

\* the ends of (0?[1-9]|[12]\d|3[01]) at position i
DayEnds(s, i) ==
    (IF Has(s, i, {"0"}) /\ Has(s, i + 1, NonZeroDigit) THEN {i + 2} ELSE {})
    \cup (IF Has(s, i, NonZeroDigit) THEN {i + 1} ELSE {})
    \cup (IF Has(s, i, {"1", "2"}) /\ Has(s, i + 1, Digit) THEN {i + 2} ELSE {})
    \cup (IF Has(s, i, {"3"}) /\ Has(s, i + 1, {"0", "1"}) THEN {i + 2} ELSE {})

padStart2(ds) == IF Len(ds) < 2 THEN <<"0">> \o ds ELSE ds

\* /\b(20\d{2})[-\/](month)[-\/](day)\b/ at position i: the matches as
\* <<month end, day end>>; the separator or \b after each group leaves at
\* most one
YmdAt(s, i) ==
    IF /\ WB(s, i)
       /\ StartsAt(s, i, Chars("20")) /\ Has(s, i + 2, Digit) /\ Has(s, i + 3, Digit)
       /\ Has(s, i + 4, DateSep)
    THEN UNION {{<<m, d>> : d \in {e \in DayEnds(s, m + 1) : WB(s, e)}} :
                    m \in {e \in MonthEnds(s, i + 5) : Has(s, e, DateSep)}}
    ELSE {}

\* /\b(month)[-\/](day)[-\/](year)\b/ at position i with a year of yl digits
\* (yl = 4: 20\d{2}; yl = 2: \d{2}), as <<month end, day end>>
MdyAt(s, i, yl) ==
    IF WB(s, i)
    THEN UNION {{<<m, d>> : d \in {e \in DayEnds(s, m + 1) :
                                    /\ Has(s, e, DateSep)
                                    /\ yl = 4 => StartsAt(s, e + 1, Chars("20"))
                                    /\ \A k \in 1..yl : Has(s, e + k, Digit)
                                    /\ WB(s, e + yl + 1)}} :
                    m \in {e \in MonthEnds(s, i) : Has(s, e, DateSep)}}
    ELSE {}

extractDate(text) ==
    LET first(S) == CHOOSE i \in S : \A j \in S : i <= j
        at1 == {i \in 1..Len(text) : YmdAt(text, i) # {}}
        at2 == {i \in 1..Len(text) : MdyAt(text, i, 4) # {}}
        at3 == {i \in 1..Len(text) : MdyAt(text, i, 2) # {}}
        dash == <<"-">>
    IN IF at1 # {} THEN
           LET i == first(at1)
               me == CHOOSE x \in YmdAt(text, i) : TRUE
           IN Some(SubSeq(text, i, i + 3) \o dash
                   \o padStart2(SubSeq(text, i + 5, me[1] - 1)) \o dash
                   \o padStart2(SubSeq(text, me[1] + 1, me[2] - 1)))
       ELSE IF at2 # {} THEN
           LET i == first(at2)
               me == CHOOSE x \in MdyAt(text, i, 4) : TRUE
           IN Some(SubSeq(text, me[2] + 1, me[2] + 4) \o dash
                   \o padStart2(SubSeq(text, i, me[1] - 1)) \o dash
                   \o padStart2(SubSeq(text, me[1] + 1, me[2] - 1)))
       ELSE IF at3 # {} THEN
           LET i == first(at3)
               me == CHOOSE x \in MdyAt(text, i, 2) : TRUE
           IN Some(Chars("20") \o padStart2(SubSeq(text, me[2] + 1, me[2] + 2)) \o dash
                   \o padStart2(SubSeq(text, i, me[1] - 1)) \o dash
                   \o padStart2(SubSeq(text, me[1] + 1, me[2] - 1)))
       ELSE None

\* getVendorAdapter returns null for every vendor, so no hook ever runs
getVendorAdapter(v) == None

(***************************************************************************)
(* splitMultiSkuLines, mergeProduceLines, semanticRepairLogicalLines       *)
(***************************************************************************)
\* the positions where /\b\d{5,8}\b/ matches
SkuStarts(line) ==
    {i \in 1..Len(line) :
        /\ WB(line, i)
        /\ SkipDigits(line, i) - i >= 5
        /\ SkipDigits(line, i) - i <= 8
        /\ WB(line, SkipDigits(line, i))}

RECURSIVE SplitBefore(_, _, _)
\* line.split(/(?=\b\d{5,8}\b)/g) from position p: a cut before every match
\* except at the start of the line
SplitBefore(line, p, cuts) ==
    LET later == {c \in cuts : c > p}
    IN IF later = {} THEN <<SubSeq(line, p, Len(line))>>
       ELSE LET c == CHOOSE x \in later : \A y \in later : x <= y
            IN <<SubSeq(line, p, c - 1)>> \o SplitBefore(line, c, cuts)

RECURSIVE splitMultiSkuLines(_)
splitMultiSkuLines(lines) ==
    IF Len(lines) = 0 THEN <<>>
    ELSE LET line == lines[1]
             skus == SkuStarts(line)
         IN (IF Cardinality(skus) <= 1 THEN <<line>>
             ELSE MapSeq(SplitBefore(line, 1, skus), trim))
            \o splitMultiSkuLines(Tail(lines))

UnitsProduce == UnitsPerUnit \cup {Chars("each")}
UnitsRate == {Chars("lb"), Chars("kg"), Chars("g"), Chars("oz")}

\* /\b(unit)\b/.test(low)
hasUnitWord(low, units) ==
    \E i \in 1..Len(low) : WB(low, i) /\ WordEnd(low, i, units) # 0

\* /^money\s*[A-Z]{0,2}\s*$/i.test(l.trim())
isMoneyOnlyLine(l) ==
    With(trim(l), LAMBDA t :
    With(MoneyEnd(t, 1), LAMBDA e :
    With(SkipWs(t, e), LAMBDA a :
        /\ e # 0
        /\ Len(t) - a + 1 <= 2
        /\ \A k \in a..Len(t) : t[k] \in Letter)))

\* hasDigits && hasUnit, without (hasWeight || hasRateMarker)
looksLikeProduceDetail_unitOnly(line) ==
    With(toLowerCase(line), LAMBDA low :
        /\ hasUnitWord(low, UnitsProduce)
        /\ \E k \in 1..Len(low) : low[k] \in Digit)

looksLikeProduceDetail(line) ==
    With(toLowerCase(line), LAMBDA low :
    With(hasUnitWord(low, UnitsProduce), LAMBDA hasUnit :
    With(hasNumberUnit(low, UnitsWeight), LAMBDA hasWeight :
    With(includes(low, <<"@">>) \/ hasSlashUnit(low, UnitsRate), LAMBDA hasRateMarker :
    With(\E k \in 1..Len(low) : low[k] \in Digit, LAMBDA hasDigits :
        hasDigits /\ hasUnit /\ (hasWeight \/ hasRateMarker))))))

hasLettersNoMoney(line) ==
    With(trim(line), LAMBDA l : Len(l) > 0 /\ hasLetter(l) /\ ~hasMoneyToken(l))

joinClean(a, b) == trim(collapseSpaces(trim(a) \o <<" ">> \o trim(b)))

\* one pass of the loop of mergeProduceLines at index i (1-based) with out
\* and mergedIdx: the next index, out and mergedIdx
mergeStep(src, i, out, mergedIdx) ==
    IF /\ i + 1 <= Len(src)
       /\ hasLettersNoMoney(src[i])
       /\ looksLikeProduceDetail(src[i + 1])
    THEN IF i + 2 <= Len(src) /\ isMoneyOnlyLine(src[i + 2])
         THEN [i |-> i + 3,
               out |-> Append(out, joinClean(joinClean(src[i], src[i + 1]), src[i + 2])),
               mergedIdx |-> Append(mergedIdx, Len(out))]
         ELSE [i |-> i + 2,
               out |-> Append(out, joinClean(src[i], src[i + 1])),
               mergedIdx |-> Append(mergedIdx, Len(out))]
    ELSE [i |-> i + 1, out |-> Append(out, src[i]), mergedIdx |-> mergedIdx]

RECURSIVE MergeFrom(_, _, _, _)
\* the loop of mergeProduceLines from index i (1-based) with out and mergedIdx
MergeFrom(src, i, out, mergedIdx) ==
    IF i > Len(src) THEN [lines |-> out, mergedLineIndexes |-> mergedIdx]
    ELSE With(mergeStep(src, i, out, mergedIdx), LAMBDA m :
             MergeFrom(src, m.i, m.out, m.mergedIdx))

mergeProduceLines(inputLines) ==
    MergeFrom(SelectSeq(MapSeq(inputLines, trim), LAMBDA l : Len(l) > 0), 1, <<>>, <<>>)

\* /^([A-Z])(?:\s+\1)+$/.test(a): one capital letter repeated, e.g. "E E"
RECURSIVE RepeatsFrom(_, _, _)
RepeatsFrom(a, c, i) ==
    IF i > Len(a) THEN TRUE
    ELSE With(SkipWs(a, i), LAMBDA j :
             j > i /\ j <= Len(a) /\ a[j] = c /\ RepeatsFrom(a, c, j + 1))

isRepeatedLetter(a) ==
    Len(a) >= 3 /\ a[1] \in Upper /\ RepeatsFrom(a, a[1], 2)

DISCOUNT == Chars("DISCOUNT")

\* what semanticRepairLogicalLines pushes for one line: a sequence of 0 or 1
repairLine(a) ==
    IF isRepeatedLetter(trim(a)) THEN <<>>
    ELSE With(extractTailAmountAndFlag(a), LAMBDA ex :
         With(IF ex = None THEN None ELSE safeParseNumber(ex[1].amount), LAMBDA n :
             IF ex # None /\ n # None /\ n[1] < 0 /\ Len(ex[1].prefix) = 0
             THEN <<trim(DISCOUNT \o <<" ">> \o ex[1].amount)>>
             ELSE IF ex # None /\ n # None /\ n[1] < 0 /\ ~hasLetter(ex[1].prefix)
             THEN <<trim(collapseSpaces(DISCOUNT \o <<" ">> \o ex[1].prefix
                                            \o <<" ">> \o ex[1].amount))>>
             ELSE <<a>>))

RECURSIVE RepairFrom(_)
RepairFrom(input) ==
    IF Len(input) = 0 THEN <<>> ELSE repairLine(input[1]) \o RepairFrom(Tail(input))

semanticRepairLogicalLines(lines) ==
    RepairFrom(SelectSeq(MapSeq(lines, trim), LAMBDA l : Len(l) > 0))

(***************************************************************************)
(* Totals extraction (bottom scan)                                         *)
(***************************************************************************)
taxRe == {<<Lit("tax")>>}
totalLineRe == {<<Lit("total")>>, <<Lit("amount due")>>, <<Lit("balance due")>>}

\* safeParseNumber of the last money token of l, or None
lastMoneyValue(l) ==
    With(matchAllMoney(l), LAMBDA all :
        IF Len(all) = 0 THEN None
        ELSE safeParseNumber(slice(l, all[Len(all)].start, all[Len(all)].end)))

RECURSIVE TotalsScan(_, _, _, _)
\* the loop over bottom from index i (1-based) downwards
TotalsScan(bottom, i, tot, tx) ==
    IF i < 1 THEN [total |-> tot, tax |-> tx]
    ELSE With(toLowerCase(bottom[i]), LAMBDA low :
         With(lastMoneyValue(bottom[i]), LAMBDA v :
         With(IF tx = None /\ TestPhrases(low, taxRe) /\ v # None THEN v ELSE tx, LAMBDA tx2 :
         With(IF tot = None /\ TestPhrases(low, totalLineRe) /\ v # None THEN v ELSE tot,
              LAMBDA tot2 :
             IF tot2 # None /\ tot = None THEN [total |-> tot2, tax |-> tx2]
             ELSE TotalsScan(bottom, i - 1, tot2, tx2)))))

extractTotals(lines) ==
    With(SubSeq(lines, Max2(0, Len(lines) - 60) + 1, Len(lines)), LAMBDA bottom :
        TotalsScan(bottom, Len(bottom), None, None))

(***************************************************************************)
(* detectProduce (produce/produceDetector.ts)                              *)
(***************************************************************************)
\* a decimal number: n / 10^d
Dec(n, d) == [n |-> n, d |-> d]

\* parseNum of digits with an optional fraction: \d+(?:\.\d+)?
parseNum(str) ==
    With({k \in 1..Len(str) : str[k] = "."}, LAMBDA dots :
    With(IF dots = {} THEN Len(str) + 1 ELSE CHOOSE k \in dots : TRUE, LAMBDA dot :
    With(SubSeq(str, dot + 1, Len(str)), LAMBDA fp :
        Dec(DigitsValue(SubSeq(str, 1, dot - 1) \o fp), Len(fp)))))

\* a Dec with at most two decimals, in hundredths
toCents(x) == x.n * Pow10(2 - x.d)

\* .replace(/\s+/g, " ")
RECURSIVE SingleSpaces(_, _)
SingleSpaces(s, i) ==
    IF i > Len(s) THEN <<>>
    ELSE IF s[i] \in Ws THEN <<" ">> \o SingleSpaces(s, SkipWs(s, i))
    ELSE <<s[i]>> \o SingleSpaces(s, i + 1)

\* lastMoneyToken: [token, value] or None
lastMoneyToken(line) ==
    With(matchAllMoney(line), LAMBDA all :
        IF Len(all) = 0 THEN None
        ELSE With(slice(line, all[Len(all)].start, all[Len(all)].end), LAMBDA token :
             With(trim(SelectSeq(token, LAMBDA c : c \notin {"$", ","})), LAMBDA t0 :
             With(Len(t0) > 0 /\ t0[Len(t0)] = "-", LAMBDA neg :
             With(NumberOf(IF neg THEN SubSeq(t0, 1, Len(t0) - 1) ELSE t0), LAMBDA n :
                 IF n = None THEN None
                 ELSE Some([token |-> token, value |-> IF neg THEN 0 - n[1] ELSE n[1]]))))))

hasProduceSignals(line) ==
    With(toLowerCase(line), LAMBDA low :
    With(hasUnitWord(low, UnitsProduce), LAMBDA hasUnit :
    With(hasNumberUnit(low, UnitsWeight), LAMBDA hasWeightDecimal :
    With(includes(low, <<"@">>) \/ hasSlashUnit(low, UnitsRate), LAMBDA hasAtOrSlash :
    With(\E i \in 1..Len(low) : low[i] = "@" /\ WB(low, i) /\ WB(low, i + 1), LAMBDA wordAt :
        (hasUnit /\ hasAtOrSlash) \/ (hasWeightDecimal /\ (hasAtOrSlash \/ wordAt)))))))

\* (\d+(?:\.\d{2})?)\b at position i: the position after the capture, or 0
PriceEnd(s, i) ==
    With(SkipDigits(s, i), LAMBDA a :
        IF a = i THEN 0
        ELSE IF Has(s, a, {"."}) /\ Has(s, a + 1, Digit) /\ Has(s, a + 2, Digit) /\ WB(s, a + 3)
        THEN a + 3
        ELSE IF WB(s, a) THEN a
        ELSE 0)

SkipDollar(s, i) == IF Has(s, i, {"$"}) THEN i + 1 ELSE i

\* /@\s*\d+(?:\.\d+)?\s*\/\s*\$?(\d+(?:\.\d{2})?)\b/ with "@" at position i:
\* the capture as <<from, to>> positions, or None
AtQtySlashPrice(s, i) ==
    With(SkipWs(s, i + 1), LAMBDA a :
    With(SkipDigits(s, a), LAMBDA b :
    With(IF Has(s, b, {"."}) THEN SkipDigits(s, b + 1) ELSE 0, LAMBDA f :
    With(SkipWs(s, IF f > b + 1 THEN f ELSE b), LAMBDA c :
    With(SkipDollar(s, SkipWs(s, c + 1)), LAMBDA d :
    With(PriceEnd(s, d), LAMBDA e :
        IF Has(s, i, {"@"}) /\ b > a /\ Has(s, c, {"/"}) /\ e # 0
        THEN Some(<<d, e - 1>>) ELSE None))))))

\* /@\s*\$?(\d+(?:\.\d{2})?)\b/ with "@" at position i
AtPrice(s, i) ==
    With(SkipDollar(s, SkipWs(s, i + 1)), LAMBDA d :
    With(PriceEnd(s, d), LAMBDA e :
        IF Has(s, i, {"@"}) /\ e # 0 THEN Some(<<d, e - 1>>) ELSE None))

\* /\$?(\d+(?:\.\d{2})?)\s*\/\s*(lb|lbs|kg|g|oz)\b/i from position i
PriceSlashUnit(low, i) ==
    With(SkipDollar(low, i), LAMBDA d :
    With(SkipDigits(low, d), LAMBDA a :
    With(IF Has(low, a, {"."}) /\ Has(low, a + 1, Digit) /\ Has(low, a + 2, Digit)
         THEN a + 3 ELSE a, LAMBDA b :
        IF a > d /\ SlashUnitAt(low, b, UnitsWeight)
        THEN Some(<<d, b - 1>>) ELSE None)))

\* the first position of 1..Len(s) where f gives a match, as that match
FirstMatch(s, f(_)) ==
    With({i \in 1..Len(s) : f(i) # None}, LAMBDA at :
        IF at = {} THEN None ELSE f(CHOOSE i \in at : \A j \in at : i <= j))

UNIT_ALIASES(u) ==
    IF u \in {Chars("lb"), Chars("lbs")} THEN "lb"
    ELSE IF u = Chars("kg") THEN "kg"
    ELSE IF u = Chars("g") THEN "g"
    ELSE IF u = Chars("oz") THEN "oz"
    ELSE IF u \in {Chars("ea"), Chars("each")} THEN "ea"
    ELSE IF u = Chars("ct") THEN "ct"
    ELSE "pc"

RECURSIVE StripTail(_, _)
\* .replace(/[@\-\s]+$/g, "")
StripTail(s, set) ==
    IF Len(s) > 0 /\ s[Len(s)] \in set THEN StripTail(SubSeq(s, 1, Len(s) - 1), set) ELSE s

\* String.prototype.lastIndexOf, 0-based, -1 when absent
lastIndexOf(s, w) ==
    With({i \in 1..(Len(s) + 1) : StartsAt(s, i, w)}, LAMBDA at :
        IF at = {} THEN 0 - 1 ELSE (CHOOSE i \in at : \A j \in at : j <= i) - 1)

\* the unit price match of detectProduce: "@ 1 / 0.50", then "@ 0.54", then
\* "0.69/LB"; the capture as <<from, to>> positions, or None
unitPriceMatch(line, low) ==
    With(FirstMatch(line, LAMBDA i : AtQtySlashPrice(line, i)), LAMBDA m1 :
        IF m1 # None THEN m1
        ELSE With(FirstMatch(line, LAMBDA i : AtPrice(line, i)), LAMBDA m2 :
                 IF m2 # None THEN m2
                 ELSE FirstMatch(low, LAMBDA i : PriceSlashUnit(low, i))))

\* |weight * unitPrice - lineTotal| is the tolerance to the last digit
atTolerance(weight, unitPrice, lineTotal, tol) ==
    With(Pow10(weight.d + unitPrice.d), LAMBDA scale :
        Abs(weight.n * unitPrice.n * 100 - lineTotal * scale) = tol * scale)

\* approxEqual(weight * unitPrice, lineTotal, tol) on decimals, scaled to
\* integers.  The source compares binary doubles: a difference that equals
\* the tolerance to the last digit compares either way, as the doubles round
\* (Math.abs(1 * 0.54 - 0.52) <= 0.02 is false); tieWithin is how it compares.
approxEqual(weight, unitPrice, lineTotal, tol, tieWithin) ==
    With(Pow10(weight.d + unitPrice.d), LAMBDA scale :
    With(Abs(weight.n * unitPrice.n * 100 - lineTotal * scale), LAMBDA diff :
        IF diff = tol * scale THEN tieWithin ELSE diff < tol * scale))

\* detectProduce without the penalty for math that fails
produceMeta_noPenalty(weight, unit, unitPrice, lineTotal, namePart, tol, tieWithin) ==
    With(weight # None /\ unit # None /\ unitPrice # None /\ lineTotal # None, LAMBDA hasAll :
    With(hasAll /\ approxEqual(weight[1], unitPrice[1], lineTotal[1], Max2(tol, 2),
                               tieWithin),
         LAMBDA mathValidated :
    With((IF weight # None /\ unit # None THEN 35 ELSE 0)
         + (IF unitPrice # None THEN 35 ELSE 0)
         + (IF lineTotal # None THEN 20 ELSE 0)
         + (IF hasLetter(namePart) THEN 10 ELSE 0), LAMBDA base :
    With(IF hasAll /\ mathValidated THEN Min2(100, base + 15)
         ELSE IF hasAll THEN base
         ELSE base, LAMBDA conf :
        [weight |-> weight,
         unit |-> unit,
         unitPrice |-> unitPrice,
         lineTotal |-> lineTotal,
         namePart |-> IF Len(namePart) = 0 THEN None ELSE Some(namePart),
         confidenceScore |-> Max2(0, Min2(100, conf)),
         reason |-> IF ~hasAll THEN "produce:partial"
                    ELSE IF mathValidated THEN "produce:full+mathOK"
                    ELSE "produce:full+mathMismatch",
         mathValidated |-> mathValidated,
         tie |-> hasAll /\ atTolerance(weight[1], unitPrice[1], lineTotal[1],
                                       Max2(tol, 2))]))))

\* the confidence, reason and result of detectProduce from what was matched
produceMeta(weight, unit, unitPrice, lineTotal, namePart, tol, tieWithin) ==
    With(weight # None /\ unit # None /\ unitPrice # None /\ lineTotal # None, LAMBDA hasAll :
    With(hasAll /\ approxEqual(weight[1], unitPrice[1], lineTotal[1], Max2(tol, 2),
                               tieWithin),
         LAMBDA mathValidated :
    With((IF weight # None /\ unit # None THEN 35 ELSE 0)
         + (IF unitPrice # None THEN 35 ELSE 0)
         + (IF lineTotal # None THEN 20 ELSE 0)
         + (IF hasLetter(namePart) THEN 10 ELSE 0), LAMBDA base :
    With(IF hasAll /\ mathValidated THEN Min2(100, base + 15)
         ELSE IF hasAll THEN Max2(20, base - 15)
         ELSE base, LAMBDA conf :
        [weight |-> weight,
         unit |-> unit,
         unitPrice |-> unitPrice,
         lineTotal |-> lineTotal,
         namePart |-> IF Len(namePart) = 0 THEN None ELSE Some(namePart),
         confidenceScore |-> Max2(0, Min2(100, conf)),
         reason |-> IF ~hasAll THEN "produce:partial"
                    ELSE IF mathValidated THEN "produce:full+mathOK"
                    ELSE "produce:full+mathMismatch",
         mathValidated |-> mathValidated,
         tie |-> hasAll /\ atTolerance(weight[1], unitPrice[1], lineTotal[1],
                                       Max2(tol, 2))]))))

\* namePart: the text before the weight, else before the last money token
producePart(line, wm, last) ==
    IF wm # None
    THEN trim(StripTail(trim(slice(line, 0, wm[1].index)), Ws \cup {"@", "-"}))
    ELSE IF last = None THEN <<>>
    ELSE With(lastIndexOf(line, last[1].token), LAMBDA idx :
             IF idx >= 0 THEN trim(slice(line, 0, idx)) ELSE <<>>)

\* tolerance in hundredths; None stands for a tolerance that is not finite.
\* The field tie of the result is not in the source: it records that the
\* difference met the tolerance to the last digit.
detectProduce(lineRaw, tolerance, tieWithin) ==
    With(trim(SingleSpaces(lineRaw, 1)), LAMBDA line :
        IF Len(line) = 0 \/ ~hasProduceSignals(line) THEN None
        ELSE With(toLowerCase(line), LAMBDA low :
             With(lastMoneyToken(line), LAMBDA last :
             With(FirstMatch(low, LAMBDA i : IF WB(low, i)
                                             THEN NumberUnitAt(low, i, UnitsProduce)
                                             ELSE None), LAMBDA wm :
             With(unitPriceMatch(line, low), LAMBDA m :
                 Some(produceMeta(
                     IF wm = None THEN None
                     ELSE Some(parseNum(slice(line, wm[1].index, wm[1].numEnd))),
                     IF wm = None THEN None
                     ELSE Some(UNIT_ALIASES(slice(low, wm[1].unitStart, wm[1].end))),
                     IF m = None THEN None
                     ELSE Some(parseNum(SubSeq(line, m[1][1], m[1][2]))),
                     IF last = None THEN None ELSE Some(last[1].value),
                     producePart(line, wm, last),
                     IF tolerance = None THEN 2 ELSE tolerance[1],
                     tieWithin)))))))

(***************************************************************************)
(* Item extraction                                                         *)
(***************************************************************************)
discountHintRe == {<<Lit("discount")>>, <<Lit("savings")>>, <<Lit("coupon")>>,
                   <<Lit("promo")>>, <<Lit("instant"), WsPlus, Lit("savings")>>}

\* /^discount\b/i.test(l)
startsWithDiscount(l) ==
    With(toLowerCase(l), LAMBDA low :
        StartsAt(low, 1, Chars("discount")) /\ WB(low, Len(DISCOUNT) + 1))

\* s.replace(/\s*(?:[A-Z]{1,2})\s*$/i, ""): the leftmost position from which
\* whitespace, one or two letters and whitespace reach the end of s
stripTrailingMarker(s) ==
    With({i \in 1..Len(s) :
             \E k \in 1..2 :
                 /\ \A j \in 0..(k - 1) : Has(s, SkipWs(s, i) + j, Letter)
                 /\ SkipWs(s, SkipWs(s, i) + k) = Len(s) + 1}, LAMBDA at :
        IF at = {} THEN s
        ELSE SubSeq(s, 1, (CHOOSE i \in at : \A j \in at : i <= j) - 1))

UnitsItem == {Chars("oz"), Chars("lb"), Chars("lbs"), Chars("g"), Chars("kg"), Chars("ml"),
              Chars("l"), Chars("ct"), Chars("pk"), Chars("pack"), Chars("each")}

normalizeUnit(u) ==
    IF u = Chars("lbs") THEN Chars("lb")
    ELSE IF u = Chars("ct") THEN Chars("each")
    ELSE IF u = Chars("pk") THEN Chars("pack")
    ELSE u

\* name.match(unitRe)?.[1], normalized
originalUnitOf(name) ==
    With(toLowerCase(name), LAMBDA low :
    With({i \in 1..Len(low) : WB(low, i) /\ WordEnd(low, i, UnitsItem) # 0}, LAMBDA at :
        IF at = {} THEN None
        ELSE With(CHOOSE x \in at : \A y \in at : x <= y, LAMBDA i :
                 Some(normalizeUnit(SubSeq(low, i, WordEnd(low, i, UnitsItem) - 1))))))

\* removal of the last occurrence of the token's text instead of its span
removeSpan_lastOccurrence(l, tok) ==
    With(lastIndexOf(l, tok.raw), LAMBDA idx :
        slice(l, 0, idx) \o sliceFrom(l, idx + Len(tok.raw)))

\* the line with the span of the token removed, before trim()
removeSpan(l, tok) == slice(l, 0, tok.start) \o sliceFrom(l, tok.end)

\* the fallback of the item loop: the last occurrence of the last money token
removeLastOccurrence(l) ==
    With(matchAllMoney(l), LAMBDA all :
        IF Len(all) = 0 THEN l
        ELSE With(slice(l, all[Len(all)].start, all[Len(all)].end), LAMBDA lastToken :
             With(lastIndexOf(l, lastToken), LAMBDA idx :
                 IF idx < 0 THEN l
                 ELSE slice(l, 0, idx) \o sliceFrom(l, idx + Len(lastToken)))))

\* the name of the item from the line without its price and the produce result
itemName(l, noPrice, produce) ==
    With(IF produce # None /\ produce[1].namePart # None
         THEN produce[1].namePart[1] ELSE noPrice, LAMBDA noPricePreferred :
    With(SkipDigits(noPricePreferred, 1) - 1, LAMBDA r :
    With(r >= 5 /\ r <= 8 /\ WB(noPricePreferred, r + 1), LAMBDA skuMatch :
    With(trim(collapseSpaces(
             IF skuMatch THEN trim(SubSeq(noPricePreferred, r + 1, Len(noPricePreferred)))
             ELSE trim(noPricePreferred))), LAMBDA name :
        [vendorSku |-> IF skuMatch THEN Some(SubSeq(noPricePreferred, 1, r)) ELSE None,
         name |-> IF Len(name) = 0 /\ startsWithDiscount(l) THEN DISCOUNT ELSE name]))))

\* the object of items.push
itemOf(l, named, lineTotal, produce, mergeApplied) ==
    [rawLineText |-> l,
     name |-> named.name,
     vendorSku |-> named.vendorSku,
     originalQuantity |-> 1,
     originalUnit |-> originalUnitOf(named.name),
     unitPrice |-> IF produce # None /\ produce[1].unitPrice # None
                   THEN Some(toCents(produce[1].unitPrice[1])) ELSE lineTotal,
     lineTotal |-> lineTotal,
     weight |-> IF produce # None THEN produce[1].weight ELSE None,
     unit |-> IF produce # None THEN produce[1].unit ELSE None,
     produceMeta |-> IF produce = None THEN None
                     ELSE Some([confidenceScore |-> produce[1].confidenceScore,
                                reason |-> produce[1].reason,
                                mathValidated |-> produce[1].mathValidated,
                                mergeApplied |-> mergeApplied])]

\* totalsRe, tenderRe or cashRe, or no line total on a line that is no discount
skipsLine(l, totalTok) ==
    With(toLowerCase(l), LAMBDA low :
        \/ TestPhrases(low, totalsRe)
        \/ TestPhrases(low, tenderRe)
        \/ TestPhrases(low, cashRe)
        \/ /\ totalTok = None
           /\ ~(TestPhrases(low, discountHintRe) \/ startsWithDiscount(l)))

\* one pass of the item loop over line l at 0-based index i:
\*   skipped     the line is left before pricedLineCount++
\*   totalTok    the token picked for lineTotal
\*   noPriceCut  the line with that token removed, before trim()
\*   item        None, or the item pushed
\*   tie         the produce math met the tolerance to the last digit
extractItem(l, i, tolerance, mergedIdx, tieWithin) ==
    With(pickLineTotalToken(l), LAMBDA totalTok :
        IF skipsLine(l, totalTok)
        THEN [skipped |-> TRUE, totalTok |-> None, noPriceCut |-> None, item |-> None,
              tie |-> FALSE]
        ELSE With(detectProduce(l, tolerance, tieWithin), LAMBDA produce :
             With(IF totalTok # None THEN removeSpan(trim(l), totalTok[1])
                  ELSE removeLastOccurrence(trim(l)), LAMBDA cut :
             With(itemName(l, trim(stripTrailingMarker(trim(cut))), produce), LAMBDA named :
                 [skipped |-> FALSE,
                  totalTok |-> totalTok,
                  noPriceCut |-> Some(cut),
                  tie |-> produce # None /\ produce[1].tie,
                  item |-> IF Len(named.name) = 0 THEN None
                           ELSE Some(itemOf(l, named,
                                            IF totalTok = None THEN None
                                            ELSE totalTok[1].value,
                                            produce, i \in mergedIdx))]))))

(***************************************************************************)
(* Confidence and review gate.  A score is a rational <<num, den>>.        *)
(***************************************************************************)
RLess(a, b) == a[1] * b[2] < b[1] * a[2]
RLeq(a, b) == a[1] * b[2] <= b[1] * a[2]
REq(a, b) == a[1] * b[2] = b[1] * a[2]

\* Math.max(0, Math.min(1, n)) for n = num / den
clamp01(num, den) == <<Max2(0, Min2(den, num)), den>>

\* scoreConfidence without the Math.min(0.15, ...) cap on the priced term
scoreConfidence_uncapped(hasVendor, hasDate, hasTotal, lineCount, pricedCount) ==
    LET den == 400 * Max2(lineCount, 1)
        Q(a, b) == (a * den) \div b
        flags == (IF hasVendor THEN Q(20, 100) ELSE 0)
                 + (IF hasDate THEN Q(20, 100) ELSE 0)
                 + (IF hasTotal THEN Q(25, 100) ELSE 0)
        lines == Min2(Q(20, 100), Q(lineCount, 40))
        pricedRatio == IF lineCount > 0 THEN Q(pricedCount, lineCount) ELSE 0
    IN clamp01(flags + lines + pricedRatio \div 4, den)

\* scoreConfidence with "score = 0.25" for "score += 0.25" on hasTotal
scoreConfidence_assignTotal(hasVendor, hasDate, hasTotal, lineCount, pricedCount) ==
    LET den == 400 * Max2(lineCount, 1)
        Q(a, b) == (a * den) \div b
        flags == IF hasTotal THEN Q(25, 100)
                 ELSE (IF hasVendor THEN Q(20, 100) ELSE 0)
                      + (IF hasDate THEN Q(20, 100) ELSE 0)
        lines == Min2(Q(20, 100), Q(lineCount, 40))
        pricedRatio == IF lineCount > 0 THEN Q(pricedCount, lineCount) ELSE 0
        priced == Min2(Q(15, 100), pricedRatio \div 4)
    IN clamp01(flags + lines + priced, den)

\* every term is a multiple of 1 / den for den = 400 * lineCount
scoreConfidence(hasVendor, hasDate, hasTotal, lineCount, pricedCount) ==
    LET den == 400 * Max2(lineCount, 1)
        Q(a, b) == (a * den) \div b
        flags == (IF hasVendor THEN Q(20, 100) ELSE 0)
                 + (IF hasDate THEN Q(20, 100) ELSE 0)
                 + (IF hasTotal THEN Q(25, 100) ELSE 0)
        lines == Min2(Q(20, 100), Q(lineCount, 40))
        pricedRatio == IF lineCount > 0 THEN Q(pricedCount, lineCount) ELSE 0
        priced == Min2(Q(15, 100), pricedRatio \div 4)
    IN clamp01(flags + lines + priced, den)

\* process.env.RECEIPT_OCR_MIN_CONFIDENCE: unset, a text that is no number
\* (Number gives NaN), or a finite number num / den
EnvUnset == [kind |-> "unset", num |-> 0, den |-> 1]
EnvNaN == [kind |-> "NaN", num |-> 0, den |-> 1]
EnvNum(n, d) == [kind |-> "number", num |-> n, den |-> d]
MinConfEnvs == {EnvUnset, EnvNaN, EnvNum(1, 2), EnvNum(1, 1)}

\* the minimum without the Number.isFinite fallback: NaN compares false
minConfidence_noFallback(e) ==
    IF e.kind = "number" THEN <<e.num, e.den>>
    ELSE IF e.kind = "unset" THEN <<85, 100>>
    ELSE <<0, 1>>

\* the minimum with 0.80 for the default 0.85
minConfidence_lowDefault(e) == IF e.kind = "number" THEN <<e.num, e.den>> ELSE <<80, 100>>

\* Number.isFinite(minConf) ? minConf : 0.85, with env's fallback "0.85"
minConfidence(e) == IF e.kind = "number" THEN <<e.num, e.den>> ELSE <<85, 100>>

\* the gate without the "fewer than 3 items" term
computeNeedsReview_noItemCount(conf, e, itemCount, tot) ==
    RLess(conf, minConfidence(e)) \/ tot = None

computeNeedsReview(conf, e, itemCount, tot) ==
    RLess(conf, minConfidence(e)) \/ itemCount < 3 \/ tot = None

\* RECEIPT_PRODUCE_TOLERANCE is left unset: env's fallback "0.02"
produceTolerance == Some(2)

(***************************************************************************)
(* Inputs                                                                  *)
(***************************************************************************)
MaxLines == 3
MaxCount == 9

InputLines ==
    {Chars("BANANAS"),
     Chars("3.04 lb @ 0.54"),
     Chars("1.64"),
     Chars("350276 /1207907"),
     Chars("7.80-"),
     Chars("TOTAL 9.44"),
     Chars("E E"),
     Chars("RED  APPLE"),
     Chars("351935 /847909 4.00") \o <<UMINUS>>,
     Chars("ONION 0.69 @ 0.69/lb"),
     Chars("12345 EGGS 2.99 67890 MILK 3.49"),
     Chars("MEMBER 01/02/2024")}

InputTexts ==
    {JoinWith(ls, <<NL>>) : ls \in UNION {[1..n -> InputLines] : n \in 0..MaxLines}}

scIdle == [state |-> "idle"]
callIdle == [fn |-> "none"]
invIdle == <<>>
dbIdle == [tables |-> "none"]
reqIdle == <<>>

(***************************************************************************)
(* parseReceiptTextDeterministic, step by step                             *)
(***************************************************************************)
Init ==
    /\ pc = "start"
    /\ fullText \in InputTexts
    /\ rawLines = <<>>
    /\ ri = 1
    /\ logical = <<>>
    /\ pending = None
    /\ logicalFixed = <<>>
    /\ produceMergedIdx = {}
    /\ vendor = None
    /\ purchaseDate = None
    /\ total = None
    /\ tax = None
    /\ li = 0
    /\ items = <<>>
    /\ pricedLineCount = 0
    /\ lastTok = None
    /\ lastNoPrice = None
    /\ confidence = <<0, 1>>
    /\ needsReview = FALSE
    /\ minConfEnv = EnvUnset
    /\ sc = scIdle
    /\ call = callIdle
    /\ inv = invIdle
    /\ db = dbIdle
    /\ req = reqIdle

\* lines 1415-1434: normalize, split, trim, clean
CleanRawLines ==
    /\ pc = "start"
    /\ rawLines' = cleanRawLines(normalizeText(fullText))
    /\ pc' = "vendor"
    /\ UNCHANGED <<fullText, ri, logical, pending, logicalFixed, produceMergedIdx, vendor,
                   purchaseDate, total, tax, li, items, pricedLineCount, lastTok,
                   lastNoPrice, confidence, needsReview, minConfEnv, sc, call, inv, db, req>>

\* lines 1439-1471: vendor, purchase date, adapter (always null)
DetectVendorAndDate ==
    /\ pc = "vendor"
    /\ vendor' = detectVendor(rawLines)
    /\ purchaseDate' = extractDate(normalizeText(fullText))
    /\ pc' = "stitch"
    /\ UNCHANGED <<fullText, rawLines, ri, logical, pending, logicalFixed, produceMergedIdx,
                   total, tax, li, items, pricedLineCount, lastTok, lastNoPrice,
                   confidence, needsReview, minConfEnv, sc, call, inv, db, req>>

stitchRest == <<fullText, rawLines, logicalFixed, produceMergedIdx, vendor, purchaseDate,
                total, tax, li, items, pricedLineCount, lastTok, lastNoPrice, confidence,
                needsReview, minConfEnv, sc, call, inv, db, req>>

\* lines 1559-1606: one pass of the stitching loop over the trimmed line l
StitchLine ==
    /\ pc = "stitch"
    /\ ri <= Len(rawLines)
    /\ With(stitchStep(logical, pending, trim(rawLines[ri])), LAMBDA st :
           /\ logical' = st.logical
           /\ pending' = st.pending)
    /\ ri' = ri + 1
    /\ pc' = pc
    /\ UNCHANGED stitchRest

\* line 1607: the flush after the loop
FinalFlush ==
    /\ pc = "stitch"
    /\ ri > Len(rawLines)
    /\ logical' = Flushed(logical, pending)
    /\ pending' = None
    /\ pc' = "split"
    /\ UNCHANGED <<ri>>
    /\ UNCHANGED stitchRest

\* lines 1647-1648: splitMultiSkuLines, no adapter hook
SplitMultiSku ==
    /\ pc = "split"
    /\ logicalFixed' = splitMultiSkuLines(logical)
    /\ pc' = "merge"
    /\ UNCHANGED <<fullText, rawLines, ri, logical, pending, produceMergedIdx, vendor,
                   purchaseDate, total, tax, li, items, pricedLineCount, lastTok,
                   lastNoPrice, confidence, needsReview, minConfEnv, sc, call, inv, db, req>>

\* lines 1651-1653
ProduceMerge ==
    /\ pc = "merge"
    /\ With(mergeProduceLines(logicalFixed), LAMBDA produceMerge :
           /\ logicalFixed' = produceMerge.lines
           /\ produceMergedIdx' = {produceMerge.mergedLineIndexes[k] :
                                       k \in 1..Len(produceMerge.mergedLineIndexes)})
    /\ pc' = "repair"
    /\ UNCHANGED <<fullText, rawLines, ri, logical, pending, vendor, purchaseDate, total,
                   tax, li, items, pricedLineCount, lastTok, lastNoPrice, confidence,
                   needsReview, minConfEnv, sc, call, inv, db, req>>

\* line 1655
SemanticRepair ==
    /\ pc = "repair"
    /\ logicalFixed' = semanticRepairLogicalLines(logicalFixed)
    /\ pc' = "totals"
    /\ UNCHANGED <<fullText, rawLines, ri, logical, pending, produceMergedIdx, vendor,
                   purchaseDate, total, tax, li, items, pricedLineCount, lastTok,
                   lastNoPrice, confidence, needsReview, minConfEnv, sc, call, inv, db, req>>

\* lines 1660-1682
ExtractTotals ==
    /\ pc = "totals"
    /\ With(extractTotals(logicalFixed), LAMBDA totals :
           /\ total' = totals.total
           /\ tax' = totals.tax)
    /\ pc' = "items"
    /\ UNCHANGED <<fullText, rawLines, ri, logical, pending, logicalFixed, produceMergedIdx,
                   vendor, purchaseDate, li, items, pricedLineCount, lastTok, lastNoPrice,
                   confidence, needsReview, minConfEnv, sc, call, inv, db, req>>

itemRest == <<fullText, rawLines, ri, logical, pending, logicalFixed, produceMergedIdx,
              vendor, purchaseDate, total, tax, confidence, needsReview, minConfEnv, sc, call, inv, db, req>>

thisItem(tieWithin) ==
    extractItem(logicalFixed[li + 1], li, produceTolerance, produceMergedIdx, tieWithin)

\* how a difference equal to the tolerance may compare: either way
roundings(it) == IF it.tie THEN BOOLEAN ELSE {TRUE}

\* the item loop pushing the item of a line twice
ItemLine_pushTwice ==
    /\ pc = "items"
    /\ li < Len(logicalFixed)
    /\ With(thisItem(TRUE), LAMBDA it0 :
           \E tieWithin \in roundings(it0) :
               With(IF tieWithin THEN it0 ELSE thisItem(FALSE), LAMBDA it :
                   /\ pricedLineCount' = IF it.skipped THEN pricedLineCount
                                         ELSE pricedLineCount + 1
                   /\ items' = IF it.item # None
                               THEN Append(Append(items, it.item[1]), it.item[1]) ELSE items
                   /\ lastTok' = it.totalTok
                   /\ lastNoPrice' = it.noPriceCut))
    /\ li' = li + 1
    /\ pc' = pc
    /\ UNCHANGED itemRest

\* lines 1701-1777: one pass of the item loop
ItemLine ==
    /\ pc = "items"
    /\ li < Len(logicalFixed)
    /\ With(thisItem(TRUE), LAMBDA it0 :
           \E tieWithin \in roundings(it0) :
               With(IF tieWithin THEN it0 ELSE thisItem(FALSE), LAMBDA it :
                   /\ pricedLineCount' = IF it.skipped THEN pricedLineCount
                                         ELSE pricedLineCount + 1
                   /\ items' = IF it.item # None THEN Append(items, it.item[1]) ELSE items
                   /\ lastTok' = it.totalTok
                   /\ lastNoPrice' = it.noPriceCut))
    /\ li' = li + 1
    /\ pc' = pc
    /\ UNCHANGED itemRest

\* lines 1779-1803: no postprocessItems hook; confidence and needsReview
ScoreAndReturn ==
    /\ pc = "items"
    /\ li >= Len(logicalFixed)
    /\ \E e \in MinConfEnvs :
           /\ minConfEnv' = e
           /\ confidence' = scoreConfidence(vendor # None, purchaseDate # None, total # None,
                                            Len(items), pricedLineCount)
           /\ needsReview' = computeNeedsReview(confidence', e, Len(items), total)
    /\ pc' = "done"
    /\ UNCHANGED <<fullText, rawLines, ri, logical, pending, logicalFixed, produceMergedIdx,
                   vendor, purchaseDate, total, tax, li, items, pricedLineCount, lastTok,
                   lastNoPrice, sc, call, inv, db, req>>

Next ==
    \/ CleanRawLines
    \/ DetectVendorAndDate
    \/ StitchLine
    \/ FinalFlush
    \/ SplitMultiSku
    \/ ProduceMerge
    \/ SemanticRepair
    \/ ExtractTotals
    \/ ItemLine
    \/ ScoreAndReturn

Spec == Init /\ [][Next]_vars

(***************************************************************************)
(* The parser on longer receipts made of a few short lines.                *)
(***************************************************************************)
MaxRows == 4

RowLines ==
    {Chars("BANANAS"),
     Chars("2 lb"),
     Chars("ONION 0.69/lb"),
     Chars("12345 3 lb @ 0.54 2.50"),
     Chars("TOTAL 9.44")}

RowTexts ==
    {JoinWith(ls, <<NL>>) : ls \in UNION {[1..n -> RowLines] : n \in 0..MaxRows}}

InitRows ==
    /\ pc = "start"
    /\ fullText \in RowTexts
    /\ rawLines = <<>>
    /\ ri = 1
    /\ logical = <<>>
    /\ pending = None
    /\ logicalFixed = <<>>
    /\ produceMergedIdx = {}
    /\ vendor = None
    /\ purchaseDate = None
    /\ total = None
    /\ tax = None
    /\ li = 0
    /\ items = <<>>
    /\ pricedLineCount = 0
    /\ lastTok = None
    /\ lastNoPrice = None
    /\ confidence = <<0, 1>>
    /\ needsReview = FALSE
    /\ minConfEnv = EnvUnset
    /\ sc = scIdle
    /\ call = callIdle
    /\ inv = invIdle
    /\ db = dbIdle
    /\ req = reqIdle

SpecRows == InitRows /\ [][Next]_vars

(***************************************************************************)
(* scoreConfidence on its own: the options are drawn from bounded sets, the *)
(* function is applied, and then applied again with flags raised.          *)
(***************************************************************************)
ScoreInputs ==
    [hasVendor : BOOLEAN, hasDate : BOOLEAN, hasTotal : BOOLEAN,
     lineCount : 0..MaxCount, pricedLineCount : 0..MaxCount]

scoreOf(opts) ==
    scoreConfidence(opts.hasVendor, opts.hasDate, opts.hasTotal,
                    opts.lineCount, opts.pricedLineCount)

InitScore ==
    /\ pc = "score"
    /\ fullText = <<>>
    /\ rawLines = <<>>
    /\ ri = 1
    /\ logical = <<>>
    /\ pending = None
    /\ logicalFixed = <<>>
    /\ produceMergedIdx = {}
    /\ vendor = None
    /\ purchaseDate = None
    /\ total = None
    /\ tax = None
    /\ li = 0
    /\ items = <<>>
    /\ pricedLineCount = 0
    /\ lastTok = None
    /\ lastNoPrice = None
    /\ confidence = <<0, 1>>
    /\ needsReview = FALSE
    /\ minConfEnv = EnvUnset
    /\ sc \in {[state |-> "input", opts |-> o, score |-> <<0, 1>>, before |-> <<0, 1>>,
                from |-> o] : o \in ScoreInputs}
    /\ call = callIdle
    /\ inv = invIdle
    /\ db = dbIdle
    /\ req = reqIdle

\* scoreConfidence(opts)
CallScore ==
    /\ sc.state = "input"
    /\ sc' = [sc EXCEPT !.state = "scored", !.score = scoreOf(sc.opts)]
    /\ UNCHANGED <<parseVars, call, inv, db, req>>

\* scoreConfidence again, the counts kept and one or several flags false -> true
CallScoreRaised ==
    /\ sc.state = "scored"
    /\ \E v \in BOOLEAN, d \in BOOLEAN, t \in BOOLEAN :
           /\ sc.opts.hasVendor => v
           /\ sc.opts.hasDate => d
           /\ sc.opts.hasTotal => t
           /\ <<v, d, t>> # <<sc.opts.hasVendor, sc.opts.hasDate, sc.opts.hasTotal>>
           /\ With([sc.opts EXCEPT !.hasVendor = v, !.hasDate = d, !.hasTotal = t],
                   LAMBDA raised :
                  sc' = [state |-> "raised", opts |-> raised, score |-> scoreOf(raised),
                         before |-> sc.score, from |-> sc.opts])
    /\ UNCHANGED <<parseVars, call, inv, db, req>>

\* the gate of the parser on the score: lineCount is finalItems.length,
\* hasTotal is total !== null, RECEIPT_OCR_MIN_CONFIDENCE is unset or no number
CallNeedsReview ==
    /\ sc.state = "scored"
    /\ \E e \in {EnvUnset, EnvNaN} :
           sc' = [state |-> "gated", opts |-> sc.opts, score |-> sc.score,
                  minConfEnv |-> e,
                  needsReview |->
                      computeNeedsReview(sc.score, e, sc.opts.lineCount,
                                         IF sc.opts.hasTotal THEN Some(0) ELSE None)]
    /\ UNCHANGED <<parseVars, call, inv, db, req>>

NextScore ==
    \/ CallScore
    \/ CallScoreRaised
    \/ CallNeedsReview

SpecScore == InitScore /\ [][NextScore]_vars

(***************************************************************************)
(* The other functions on their own.  The parser does not run: its         *)
(* variables stay as below.                                                *)
(***************************************************************************)
ParserIdle ==
    /\ pc = "idle"
    /\ fullText = <<>>
    /\ rawLines = <<>>
    /\ ri = 1
    /\ logical = <<>>
    /\ pending = None
    /\ logicalFixed = <<>>
    /\ produceMergedIdx = {}
    /\ vendor = None
    /\ purchaseDate = None
    /\ total = None
    /\ tax = None
    /\ li = 0
    /\ items = <<>>
    /\ pricedLineCount = 0
    /\ lastTok = None
    /\ lastNoPrice = None
    /\ confidence = <<0, 1>>
    /\ needsReview = FALSE
    /\ minConfEnv = EnvUnset
    /\ sc = scIdle

(***************************************************************************)
(* detectProduce on its own: a line made of a name, a produce detail and a *)
(* total, a tolerance; then the same line with another total.              *)
(***************************************************************************)
ProduceNames == {<<>>, Chars("BANANAS ")}

ProduceDetails ==
    {Chars("3.04 lb @ 0.54"),
     Chars("1 lb @ 0.54"),
     Chars("2 lb @ 1/0.50"),
     Chars("3.04 lb"),
     Chars("@ 0.54")}

ProduceTotals ==
    {<<>>, Chars(" 1.64"), Chars(" 2.50"), Chars(" 0.52"), Chars(" 1.02"), Chars(" 1.67")}

\* opts.tolerance in hundredths; None: not a finite number
Tolerances == {None, Some(1), Some(5)}

produceLine(c) == c.name \o c.detail \o c.total

InitProduce ==
    /\ ParserIdle
    /\ inv = invIdle
    /\ db = dbIdle
    /\ req = reqIdle
    /\ call \in {[fn |-> "detectProduce", state |-> "input", name |-> n, detail |-> d,
                  total |-> t, tolerance |-> tol, result |-> None, before |-> None,
                  beforeTotal |-> t] :
                     n \in ProduceNames, d \in ProduceDetails, t \in ProduceTotals,
                     tol \in Tolerances}

\* the ways the doubles may round on this line
roundingsOf(line, tolerance) ==
    With(detectProduce(line, tolerance, TRUE), LAMBDA r :
        IF r # None /\ r[1].tie THEN BOOLEAN ELSE {TRUE})

\* detectProduce(line, {tolerance})
CallDetectProduce ==
    /\ call.fn = "detectProduce"
    /\ call.state = "input"
    /\ \E tieWithin \in roundingsOf(produceLine(call), call.tolerance) :
           call' = [call EXCEPT !.state = "called",
                                !.result = detectProduce(produceLine(call), call.tolerance,
                                                         tieWithin)]
    /\ UNCHANGED <<parseVars, sc, inv, db, req>>

\* detectProduce again, on the same line with another total
CallDetectProducePerturbed ==
    /\ call.fn = "detectProduce"
    /\ call.state = "called"
    /\ \E t \in ProduceTotals \ {call.total} :
           With([call EXCEPT !.total = t], LAMBDA c :
               \E tieWithin \in roundingsOf(produceLine(c), c.tolerance) :
                   call' = [c EXCEPT !.state = "perturbed",
                                     !.result = detectProduce(produceLine(c), c.tolerance,
                                                              tieWithin),
                                     !.before = call.result,
                                     !.beforeTotal = call.total])
    /\ UNCHANGED <<parseVars, sc, inv, db, req>>

NextProduce ==
    \/ CallDetectProduce
    \/ CallDetectProducePerturbed

SpecProduce == InitProduce /\ [][NextProduce]_vars

(***************************************************************************)
(* chooseOcrText and scoreReceiptText.  A score is kept doubled, so that   *)
(* structure * 0.5 is an integer.                                          *)
(***************************************************************************)
\* \b\d{lo,hi}\b at position i: the position after the match, or 0.  The
\* digits are followed by \b, so the run of digits is taken whole.
DigitRunEnd(s, i, lo, hi) ==
    With(SkipDigits(s, i), LAMBDA r :
        IF WB(s, i) /\ r - i >= lo /\ r - i <= hi /\ WB(s, r) THEN r ELSE 0)

\* \b\d{1,7}[.,]\d{2}\b at position i: the position after the match, or 0
PlainMoneyEnd(s, i) ==
    With(SkipDigits(s, i), LAMBDA r :
        IF /\ WB(s, i)
           /\ r - i >= 1
           /\ r - i <= 7
           /\ Has(s, r, {".", ","})
           /\ Has(s, r + 1, Digit)
           /\ Has(s, r + 2, Digit)
           /\ WB(s, r + 3)
        THEN r + 3 ELSE 0)

totalsWords ==
    {<<Lit("subtotal")>>, <<Lit("total")>>, <<Lit("tax")>>,
     <<Lit("change"), WsPlus, Lit("due")>>}

\* \b(subtotal|total|tax|change\s+due)\b at position i of lower-cased s
TotalsWordEnd(s, i) ==
    With({PhraseEnd(s, i, p) : p \in totalsWords} \ {0}, LAMBDA ends :
        IF WB(s, i) /\ ends # {} /\ WB(s, CHOOSE e \in ends : TRUE)
        THEN CHOOSE e \in ends : TRUE ELSE 0)

\* https?:\/\/ at position i of lower-cased s
UrlEnd(s, i) == PhraseEnd(s, i, <<Lit("http"), Opt("s"), Lit("://")>>)

\* the position after the match of the expression `kind` at position i, or 0
HitEnd(s, i, kind) ==
    IF kind = "money" THEN PlainMoneyEnd(s, i)
    ELSE IF kind = "upc" THEN DigitRunEnd(s, i, 11, 14)
    ELSE IF kind = "sku" THEN DigitRunEnd(s, i, 4, 7)
    ELSE IF kind = "totals" THEN TotalsWordEnd(s, i)
    ELSE UrlEnd(s, i)

RECURSIVE CountHits(_, _, _)
\* (s.match(/.../g) || []).length from position i
CountHits(s, i, kind) ==
    IF i > Len(s) THEN 0
    ELSE With(HitEnd(s, i, kind), LAMBDA e :
             IF e > i THEN 1 + CountHits(s, e, kind) ELSE CountHits(s, i + 1, kind))

\* -1e9, doubled
NoTextScore == -2000000000

\* scoreReceiptText(text), doubled
scoreReceiptText(text) ==
    With(SelectSeq(text, LAMBDA c : c # CR), LAMBDA t :
        IF Len(trim(t)) = 0 THEN NoTextScore
        ELSE With(toLowerCase(t), LAMBDA low :
             With(SelectSeq(MapSeq(SplitAt(t, NL, 1), trim), LAMBDA l : Len(l) > 0),
                  LAMBDA lines :
                 CountHits(t, 1, "money") * 12
                     + CountHits(t, 1, "upc") * 8
                     + CountHits(t, 1, "sku") * 4
                     + CountHits(low, 1, "totals") * 16
                     + Min2(Len(lines), 120)
                     - CountHits(low, 1, "url") * 20)))

\* scoreGeo > scoreText + 5 without the margin
geoWins_noMargin(scoreGeo, scoreText) == scoreGeo > scoreText

\* scoreGeo > scoreText + 5, on doubled scores
geoWins(scoreGeo, scoreText) == scoreGeo > scoreText + 10

\* opts.geoText is truthy
hasGeoText(geoText) == geoText # None /\ Len(geoText[1]) > 0

\* chooseOcrText({text, geoText, mode}); geoText None when it is undefined
chooseOcrText(text, geoText, mode) ==
    With(scoreReceiptText(text), LAMBDA scoreText :
    With(IF hasGeoText(geoText) THEN scoreReceiptText(geoText[1]) ELSE NoTextScore,
         LAMBDA scoreGeo :
    With([text |-> scoreText, geo |-> scoreGeo], LAMBDA scores :
        IF mode = "geo" /\ hasGeoText(geoText)
        THEN [chosenText |-> geoText[1], chosenMode |-> "geo", scores |-> scores]
        ELSE IF mode = "text"
        THEN [chosenText |-> text, chosenMode |-> "text", scores |-> scores]
        ELSE IF hasGeoText(geoText) /\ geoWins(scoreGeo, scoreText)
        THEN [chosenText |-> geoText[1], chosenMode |-> "geo", scores |-> scores]
        ELSE [chosenText |-> text, chosenMode |-> "text", scores |-> scores])))

OcrModes == {"auto", "text", "geo"}

OcrTexts ==
    {<<>>,
     Chars("   "),
     Chars("A"),
     <<"1", "2", "3", "4", NL, "5", "6", "7", "8", NL, "A">>,
     Chars("MILK 3.49"),
     Chars("MILK 3.49") \o <<CR, NL>> \o Chars("Tax 0.50"),
     Chars("https://x 123456789012")}

InitChoose ==
    /\ ParserIdle
    /\ inv = invIdle
    /\ db = dbIdle
    /\ req = reqIdle
    /\ call \in {[fn |-> "chooseOcrText", state |-> "input", text |-> t, geoText |-> g,
                  mode |-> m, result |-> None] :
                     t \in OcrTexts, g \in {None} \cup {Some(x) : x \in OcrTexts},
                     m \in OcrModes}

\* chooseOcrText({text, geoText, mode})
CallChooseOcrText ==
    /\ call.fn = "chooseOcrText"
    /\ call.state = "input"
    /\ call' = [call EXCEPT !.state = "chosen",
                            !.result = Some(chooseOcrText(call.text, call.geoText, call.mode))]
    /\ UNCHANGED <<parseVars, sc, inv, db, req>>

NextChoose == CallChooseOcrText

SpecChoose == InitChoose /\ [][NextChoose]_vars

(***************************************************************************)
(* detectVendorAdapter.  A detect result is a boolean, a number or NaN.    *)
(***************************************************************************)
registry == <<"walmart", "costco", "amazon">>

boolResult(b) == [t |-> "boolean", b |-> b, n |-> 0]
numResult(n) == [t |-> "number", b |-> FALSE, n |-> n]
nanResult == [t |-> "NaN", b |-> FALSE, n |-> 0]

DetectResults ==
    {boolResult(FALSE), boolResult(TRUE), numResult(0), numResult(2), numResult(5),
     numResult(-1), nanResult}

\* typeof result === "number" ? result : result ? 1 : 0
adapterScore(result) ==
    IF result.t = "boolean" THEN numResult(IF result.b THEN 1 ELSE 0) ELSE result

\* score > 0 && (!best || score >= best.score)
betterScore_orEqual(score, best) ==
    /\ score.t = "number"
    /\ score.n > 0
    /\ (best = None \/ score.n >= best[1].score)

\* score > 0 && (!best || score > best.score); every comparison with NaN is false
betterScore(score, best) ==
    /\ score.t = "number"
    /\ score.n > 0
    /\ (best = None \/ score.n > best[1].score)

InitVendor ==
    /\ ParserIdle
    /\ inv = invIdle
    /\ db = dbIdle
    /\ req = reqIdle
    /\ call \in {[fn |-> "detectVendorAdapter", state |-> "loop", results |-> rs, k |-> 1,
                  best |-> None, result |-> None, hooks |-> None] :
                     rs \in [1..Len(registry) -> DetectResults]}

\* one iteration of `for (const adapter of registry)`
VendorLoopStep ==
    /\ call.fn = "detectVendorAdapter"
    /\ call.state = "loop"
    /\ call.k <= Len(registry)
    /\ With(adapterScore(call.results[call.k]), LAMBDA score :
           call' = [call EXCEPT
                        !.k = call.k + 1,
                        !.best = IF betterScore(score, call.best)
                                 THEN Some([adapter |-> registry[call.k], score |-> score.n])
                                 ELSE call.best])
    /\ UNCHANGED <<parseVars, sc, inv, db, req>>

\* return best?.adapter ?? null
VendorReturn ==
    /\ call.fn = "detectVendorAdapter"
    /\ call.state = "loop"
    /\ call.k > Len(registry)
    /\ call' = [call EXCEPT
                    !.state = "returned",
                    !.result = IF call.best = None THEN None ELSE Some(call.best[1].adapter)]
    /\ UNCHANGED <<parseVars, sc, inv, db, req>>

\* the caller's adapter?.preprocessRawLines, ?.preprocessLogicalLines and
\* ?.postprocessItems: the hooks of the returned adapter, or none
VendorHooks ==
    /\ call.fn = "detectVendorAdapter"
    /\ call.state = "returned"
    /\ call' = [call EXCEPT !.state = "applied", !.hooks = call.result]
    /\ UNCHANGED <<parseVars, sc, inv, db, req>>

NextVendor == VendorLoopStep \/ VendorReturn \/ VendorHooks

SpecVendor == InitVendor /\ [][NextVendor]_vars

(***************************************************************************)
(* buildGeoLineObjects.  A bounding box is reduced to its minX, minY and   *)
(* maxY (whole pixels); a length is kept in 1/GeoScale of a pixel, so that *)
(* the centre of a box, the median of the heights, the threshold           *)
(* medH * 0.65 and up to four running averages of a row are integers.      *)
(***************************************************************************)
GeoScale == 160

MaxWords == 3

box(minX, minY, maxY) == Some([minX |-> minX, minY |-> minY, maxY |-> maxY])

\* the words an OCR provider emits; A and B come without a bounding box
GeoWordPool ==
    {[text |-> Chars("A"), bbox |-> None],
     [text |-> Chars("B"), bbox |-> None],
     [text |-> Chars("C"), bbox |-> box(5, 5, 15)],
     [text |-> Chars("D"), bbox |-> box(0, 7, 17)],
     [text |-> Chars("E"), bbox |-> box(0, 38, 42)],
     [text |-> Chars("F"), bbox |-> box(3, 11, 22)],
     [text |-> Chars(" "), bbox |-> box(0, 65, 75)],
     [text |-> <<>>, bbox |-> box(9, 7, 17)]}

\* bboxToMetrics(bbox): minX, cy and h
bboxToMetrics(bbox) ==
    IF bbox = None THEN [minX |-> 0, cy |-> 0, h |-> 0]
    ELSE [minX |-> bbox[1].minX * GeoScale,
          cy |-> ((bbox[1].minY + bbox[1].maxY) * GeoScale) \div 2,
          h |-> Max2(0, bbox[1].maxY - bbox[1].minY) * GeoScale]

\* { ...w, _minX, _cy, _h }
enrichWord(w) ==
    With(bboxToMetrics(w.bbox), LAMBDA m :
        [text |-> w.text, minX |-> m.minX, cy |-> m.cy, h |-> m.h])

RECURSIVE sortNumbers(_)
\* .slice().sort((a, b) => a - b)
sortNumbers(nums) ==
    IF nums = <<>> THEN <<>>
    ELSE With(sortNumbers(SubSeq(nums, 1, Len(nums) - 1)), LAMBDA sorted :
         With(Cardinality({i \in 1..Len(sorted) : sorted[i] <= nums[Len(nums)]}), LAMBDA at :
             SubSeq(sorted, 1, at) \o <<nums[Len(nums)]>> \o SubSeq(sorted, at + 1, Len(sorted))))

\* median(nums)
median(nums) ==
    With(sortNumbers(nums), LAMBDA arr :
        IF Len(arr) = 0 THEN 0
        ELSE With(Len(arr) \div 2, LAMBDA mid :
                 IF Len(arr) % 2 = 1 THEN arr[mid + 1]
                 ELSE (arr[mid] + arr[mid + 1]) \div 2))

\* median of the positive heights, || 10
medianHeight(enriched) ==
    With(median(SelectSeq(MapSeq(enriched, LAMBDA e : e.h), LAMBDA h : h > 0)), LAMBDA med :
        IF med = 0 THEN 10 * GeoScale ELSE med)

\* Math.max(3, medH * yMergeMultiplier), yMergeMultiplier 0.65
yThreshOf(enriched) == Max2(3 * GeoScale, (medianHeight(enriched) * 65) \div 100)

\* (a._cy - b._cy) || (a._minX - b._minX) is not positive
wordNotAfter(a, b) == a.cy < b.cy \/ (a.cy = b.cy /\ a.minX <= b.minX)

RECURSIVE sortWords(_)
\* enriched.sort(...): a stable sort
sortWords(ws) ==
    IF ws = <<>> THEN <<>>
    ELSE With(sortWords(SubSeq(ws, 1, Len(ws) - 1)), LAMBDA sorted :
         With(Cardinality({i \in 1..Len(sorted) : wordNotAfter(sorted[i], ws[Len(ws)])}),
              LAMBDA at :
             SubSeq(sorted, 1, at) \o <<ws[Len(ws)]>> \o SubSeq(sorted, at + 1, Len(sorted))))

\* lines[i].y - w._cy, without Math.abs
rowDistance_signed(y, cy) == y - cy

\* Math.abs(lines[i].y - w._cy)
rowDistance(y, cy) == Abs(y - cy)

noRow == [idx |-> 0, dist |-> 0, stop |-> 0]

RECURSIVE scanRows(_, _, _, _, _)
\* the backward scan from row i: the best row (idx 0: none), its distance,
\* and the row at which the scan stopped early (0: it did not)
scanRows(lines, cy, yThresh, i, best) ==
    IF i = 0 THEN best
    ELSE With(rowDistance(lines[i].y, cy), LAMBDA dist :
         With(IF best.idx = 0 \/ dist < best.dist
              THEN [idx |-> i, dist |-> dist, stop |-> 0] ELSE best, LAMBDA b :
             IF lines[i].y < cy - yThresh * 2 THEN [b EXCEPT !.stop = i]
             ELSE scanRows(lines, cy, yThresh, i - 1, b)))

\* the body of `for (const w of enriched)`
placeWord(lines, w, yThresh) ==
    With(scanRows(lines, w.cy, yThresh, Len(lines), noRow), LAMBDA b :
        IF b.idx > 0 /\ b.dist <= yThresh
        THEN [lines EXCEPT ![b.idx] =
                  [y |-> (@.y + w.cy) \div 2,
                   words |-> Append(@.words, [x |-> w.minX, text |-> w.text])]]
        ELSE Append(lines, [y |-> w.cy, words |-> <<[x |-> w.minX, text |-> w.text]>>]))

RECURSIVE sortTokens(_)
\* L.words.sort((a, b) => a.x - b.x): a stable sort
sortTokens(ts) ==
    IF ts = <<>> THEN <<>>
    ELSE With(sortTokens(SubSeq(ts, 1, Len(ts) - 1)), LAMBDA sorted :
         With(Cardinality({i \in 1..Len(sorted) : sorted[i].x <= ts[Len(ts)].x}), LAMBDA at :
             SubSeq(sorted, 1, at) \o <<ts[Len(ts)]>> \o SubSeq(sorted, at + 1, Len(sorted))))

\* normalizeLine(s)
normalizeLine(s) == trim(collapseSpaces(s))

\* the row object of one row
rowObject(L) ==
    With(sortTokens(L.words), LAMBDA tokens :
        [y |-> L.y, tokens |-> tokens,
         text |-> normalizeLine(JoinWith(MapSeq(tokens, LAMBDA t : t.text), <<" ">>))])

\* lines.map(...).filter((x) => x.text)
rowObjects(lines) == SelectSeq(MapSeq(lines, rowObject), LAMBDA x : Len(x.text) > 0)

\* words.filter(minWordLen 1).map(enrich)
enrichWords(words) == MapSeq(SelectSeq(words, LAMBDA w : Len(w.text) >= 1), enrichWord)

RECURSIVE placeWords(_, _, _, _)
\* the loop over the sorted words from word k
placeWords(sorted, k, lines, yThresh) ==
    IF k > Len(sorted) THEN lines
    ELSE placeWords(sorted, k + 1, placeWord(lines, sorted[k], yThresh), yThresh)

\* buildGeoLineObjects(words)
buildGeoLineObjects(words) ==
    With(enrichWords(words), LAMBDA enriched :
        rowObjects(placeWords(sortWords(enriched), 1, <<>>, yThreshOf(enriched))))

InitGeo ==
    /\ ParserIdle
    /\ inv = invIdle
    /\ db = dbIdle
    /\ req = reqIdle
    /\ call \in {[fn |-> "buildGeoLineObjects", state |-> "input", words |-> ws,
                  sorted |-> <<>>, yThresh |-> 0, k |-> 1, lines |-> <<>>,
                  before |-> <<>>, scan |-> noRow, result |-> None] :
                     ws \in UNION {[1..n -> GeoWordPool] : n \in 0..MaxWords}}

\* filter, enrich, medH, yThresh, sort
GeoSort ==
    /\ call.fn = "buildGeoLineObjects"
    /\ call.state = "input"
    /\ With(enrichWords(call.words), LAMBDA enriched :
           call' = [call EXCEPT !.state = "rows",
                                !.sorted = sortWords(enriched),
                                !.yThresh = yThreshOf(enriched)])
    /\ UNCHANGED <<parseVars, sc, inv, db, req>>

\* one iteration of `for (const w of enriched)`; before and scan keep the
\* rows the word met and what the backward scan found
GeoPlace ==
    /\ call.fn = "buildGeoLineObjects"
    /\ call.state = "rows"
    /\ call.k <= Len(call.sorted)
    /\ call' = [call EXCEPT
                    !.k = call.k + 1,
                    !.before = call.lines,
                    !.scan = scanRows(call.lines, call.sorted[call.k].cy, call.yThresh,
                                      Len(call.lines), noRow),
                    !.lines = placeWord(call.lines, call.sorted[call.k], call.yThresh)]
    /\ UNCHANGED <<parseVars, sc, inv, db, req>>

\* return lines.map(...).filter(...)
GeoReturn ==
    /\ call.fn = "buildGeoLineObjects"
    /\ call.state = "rows"
    /\ call.k > Len(call.sorted)
    /\ call' = [call EXCEPT !.state = "returned", !.result = Some(rowObjects(call.lines))]
    /\ UNCHANGED <<parseVars, sc, inv, db, req>>

NextGeo == GeoSort \/ GeoPlace \/ GeoReturn

SpecGeo == InitGeo /\ [][NextGeo]_vars

(***************************************************************************)
(* Two invocations of the stitcher and the produce merger, their steps     *)
(* interleaved.  inv[p] holds the locals of invocation p: logical and      *)
(* pending of the stitcher, src, i, out and mergedIdx of the merger.       *)
(***************************************************************************)
Invocations == {1, 2}

MaxPairLines == 2

PairLines == {Chars("BANANAS"), Chars("2 lb"), Chars("MILK 3.49")}

PairInputs == UNION {[1..n -> PairLines] : n \in 0..MaxPairLines}

\* the locals of an invocation for rawLines, before the stitching loop
invStart(lines) ==
    [pc |-> "stitch", rawLines |-> lines, ri |-> 1, logical |-> <<>>, pending |-> None,
     src |-> <<>>, i |-> 1, out |-> <<>>, mergedIdx |-> <<>>, result |-> None]

InitPair ==
    /\ ParserIdle
    /\ call = callIdle
    /\ inv \in {[p \in Invocations |-> invStart(ls[p])] : ls \in [Invocations -> PairInputs]}
    /\ db = dbIdle
    /\ req = reqIdle

\* pending read from the first invocation, whichever invocation asks
pendingOf_shared(p) == inv[1].pending

\* `let pending` of invocation p
pendingOf(p) == inv[p].pending

\* one pass of the stitching loop in one invocation
PairStitchLine ==
    \E p \in Invocations :
        /\ inv[p].pc = "stitch"
        /\ inv[p].ri <= Len(inv[p].rawLines)
        /\ With(stitchStep(inv[p].logical, pendingOf(p), trim(inv[p].rawLines[inv[p].ri])),
                LAMBDA st :
               inv' = [inv EXCEPT ![p].logical = st.logical,
                                  ![p].pending = st.pending,
                                  ![p].ri = @ + 1])
        /\ UNCHANGED <<parseVars, sc, call, db, req>>

\* the flush after the loop, splitMultiSkuLines, and the first line of
\* mergeProduceLines in one invocation
PairFlush ==
    \E p \in Invocations :
        /\ inv[p].pc = "stitch"
        /\ inv[p].ri > Len(inv[p].rawLines)
        /\ With(Flushed(inv[p].logical, pendingOf(p)), LAMBDA lg :
               inv' = [inv EXCEPT
                           ![p].logical = lg,
                           ![p].pending = None,
                           ![p].src = SelectSeq(MapSeq(splitMultiSkuLines(lg), trim),
                                                LAMBDA l : Len(l) > 0),
                           ![p].pc = "merge"])
        /\ UNCHANGED <<parseVars, sc, call, db, req>>

\* one pass of the loop of mergeProduceLines in one invocation
PairMergeStep ==
    \E p \in Invocations :
        /\ inv[p].pc = "merge"
        /\ inv[p].i <= Len(inv[p].src)
        /\ With(mergeStep(inv[p].src, inv[p].i, inv[p].out, inv[p].mergedIdx), LAMBDA m :
               inv' = [inv EXCEPT ![p].i = m.i, ![p].out = m.out,
                                  ![p].mergedIdx = m.mergedIdx])
        /\ UNCHANGED <<parseVars, sc, call, db, req>>

\* return { lines: out, mergedLineIndexes: mergedIdx } in one invocation
PairMergeReturn ==
    \E p \in Invocations :
        /\ inv[p].pc = "merge"
        /\ inv[p].i > Len(inv[p].src)
        /\ inv' = [inv EXCEPT
                       ![p].pc = "done",
                       ![p].result = Some([lines |-> inv[p].out,
                                           mergedLineIndexes |-> inv[p].mergedIdx])]
        /\ UNCHANGED <<parseVars, sc, call, db, req>>

NextPair == PairStitchLine \/ PairFlush \/ PairMergeStep \/ PairMergeReturn

SpecPair == InitPair /\ [][NextPair]_vars

(***************************************************************************)
(* mergeProduceLines on its own, one pass of its loop at a time            *)
(***************************************************************************)
MaxMergeLines == 3

MergeLines ==
    {Chars("BANANAS"),
     Chars("2 lb"),
     Chars("3.04 lb @ 0.54"),
     Chars("2 ea"),
     Chars("@ 2 each"),
     Chars("lb @"),
     Chars("1.64"),
     Chars("MILK 3.49")}

InitMerge ==
    /\ ParserIdle
    /\ inv = invIdle
    /\ db = dbIdle
    /\ req = reqIdle
    /\ call \in {[fn |-> "mergeProduceLines", state |-> "loop", inputLines |-> ls,
                  src |-> SelectSeq(MapSeq(ls, trim), LAMBDA l : Len(l) > 0),
                  i |-> 1, out |-> <<>>, mergedIdx |-> <<>>, at |-> 0, result |-> None] :
                     ls \in UNION {[1..n -> MergeLines] : n \in 0..MaxMergeLines}}

\* one pass of the loop; at keeps the index the pass started from
MergeLoopStep ==
    /\ call.fn = "mergeProduceLines"
    /\ call.state = "loop"
    /\ call.i <= Len(call.src)
    /\ With(mergeStep(call.src, call.i, call.out, call.mergedIdx), LAMBDA m :
           call' = [call EXCEPT !.i = m.i, !.out = m.out, !.mergedIdx = m.mergedIdx,
                                !.at = call.i])
    /\ UNCHANGED <<parseVars, sc, inv, db, req>>

\* return { lines: out, mergedLineIndexes: mergedIdx }
MergeReturn ==
    /\ call.fn = "mergeProduceLines"
    /\ call.state = "loop"
    /\ call.i > Len(call.src)
    /\ call' = [call EXCEPT
                    !.state = "returned",
                    !.result = Some([lines |-> call.out, mergedLineIndexes |-> call.mergedIdx])]
    /\ UNCHANGED <<parseVars, sc, inv, db, req>>

NextMerge == MergeLoopStep \/ MergeReturn

SpecMerge == InitMerge /\ [][NextMerge]_vars

(***************************************************************************)
(* The Costco adapter: cleanLines and buildCostcoLogicalStable             *)
(***************************************************************************)
\* /^\d{lo,hi}/ followed by something that is not a digit: the position
\* after the digits, or 0
LeadingDigitsEnd(s, lo, hi) ==
    With(SkipDigits(s, 1), LAMBDA r : IF r - 1 >= lo /\ r - 1 <= hi THEN r ELSE 0)

\* skuStartRe = /^\d{4,8}\b/: the position after the SKU, or 0
skuStartEnd(line) ==
    With(LeadingDigitsEnd(line, 4, 8), LAMBDA r : IF r > 0 /\ WB(line, r) THEN r ELSE 0)

\* \d{1,7}\.\d{2}\s*[YN] at position p: the position after it, or 0
PriceFlagEnd(s, p) ==
    With({k \in 1..7 : /\ \A d \in 0..(k - 1) : Has(s, p + d, Digit)
                       /\ Has(s, p + k, {"."})
                       /\ Has(s, p + k + 1, Digit)
                       /\ Has(s, p + k + 2, Digit)
                       /\ Has(s, SkipWs(s, p + k + 3), {"Y", "N", "y", "n"})}, LAMBDA ks :
        IF ks = {} THEN 0 ELSE SkipWs(s, p + (CHOOSE k \in ks : TRUE) + 3) + 1)

\* pricedSkuLineRe = /^\d{4,8}\b.*\d{1,7}\.\d{2}\s*[YN]\b/i
pricedSkuLine(line) ==
    /\ skuStartEnd(line) > 0
    /\ \E p \in skuStartEnd(line)..Len(line) :
           PriceFlagEnd(line, p) > 0 /\ WB(line, PriceFlagEnd(line, p))

\* priceOnlyRe = /^-?\d{1,7}(?:\.\d{2})?\s*[YN]\b/i
priceOnly(line) ==
    With(IF Has(line, 1, {"-"}) THEN 2 ELSE 1, LAMBDA a :
    With(SkipDigits(line, a), LAMBDA b :
    With(IF Has(line, b, {"."}) /\ Has(line, b + 1, Digit) /\ Has(line, b + 2, Digit)
         THEN b + 3 ELSE b, LAMBDA c :
    With(SkipWs(line, c), LAMBDA d :
        /\ b - a >= 1
        /\ b - a <= 7
        /\ Has(line, d, {"Y", "N", "y", "n"})
        /\ WB(line, d + 1)))))

\* line.match(promoPairRe), promoPairRe = /^\d{5,7}\s*\/\s*(\d{5,8})$/: the
\* captured SKU, or None
promoPairSku(line) ==
    With(LeadingDigitsEnd(line, 5, 7), LAMBDA r :
    With(SkipWs(line, Max2(r, 1)), LAMBDA a :
    With(SkipWs(line, a + 1), LAMBDA b :
        IF /\ r > 0
           /\ Has(line, a, {"/"})
           /\ SkipDigits(line, b) = Len(line) + 1
           /\ Len(line) + 1 - b >= 5
           /\ Len(line) + 1 - b <= 8
        THEN Some(SubSeq(line, b, Len(line))) ELSE None)))

\* discountOnlyRe = /^\d{1,7}(?:\.\d{2})-$/
discountOnly(line) ==
    With(LeadingDigitsEnd(line, 1, 7), LAMBDA r :
        /\ r > 0
        /\ Len(line) = r + 3
        /\ line[r] = "."
        /\ line[r + 1] \in Digit
        /\ line[r + 2] \in Digit
        /\ line[r + 3] = "-")

\* the Cyrillic letter sha of noiseLineRe, small and capital
ShaLetters == {"U+0448", "U+0428"}

\* noiseLineRe, bigNumberRe, the two includes and the page markers
costcoNoise(l) ==
    \/ toLowerCase(l) \in {Chars("e"), Chars("member")}
    \/ (Len(l) >= 2 /\ \A k \in 1..Len(l) : l[k] \in ShaLetters)
    \/ (Len(l) >= 10 /\ \A k \in 1..Len(l) : l[k] \in Digit)
    \/ includes(toLowerCase(l), Chars("orders & purchases"))
    \/ includes(toLowerCase(l), Chars("costco.com"))
    \/ With(SkipDigits(l, 1), LAMBDA r :
           /\ r > 1
           /\ Has(l, r, {"/"})
           /\ SkipDigits(l, r + 1) = Len(l) + 1
           /\ r + 1 <= Len(l))

\* cleanLines(lines)
cleanLines(lines) ==
    SelectSeq(SelectSeq(MapSeq(lines, trim), LAMBDA l : Len(l) > 0),
              LAMBDA l : ~costcoNoise(l))

\* curr.match(/(\d{1,7}\.\d{2}\s*[YN])\s*$/i): the position of the match, or 0
trailingPriceAt(curr) ==
    With({p \in 1..Len(curr) :
              PriceFlagEnd(curr, p) > 0 /\ SkipWs(curr, PriceFlagEnd(curr, p)) = Len(curr) + 1},
         LAMBDA ps : IF ps = {} THEN 0 ELSE CHOOSE p \in ps : \A q \in ps : p <= q)

\* `${a} ${b}`.replace(/\s{2,}/g, " ").trim()
costcoJoin(a, b) == trim(collapseSpaces(a \o <<" ">> \o b))

\* one pass of the loop of buildCostcoLogicalStable at line i (1-based): the
\* next i, out, pendingSkuNoPrice, pendingPromoSku, and the line it held
costcoStep(lines, i, out, pendingSkuNoPrice, pendingPromoSku) ==
    With(lines[i], LAMBDA line :
    With([i |-> i + 1, out |-> out, pendingSkuNoPrice |-> pendingSkuNoPrice,
          pendingPromoSku |-> pendingPromoSku, held |-> None], LAMBDA same :
        IF promoPairSku(line) # None
        THEN [same EXCEPT !.pendingPromoSku = promoPairSku(line)]
        ELSE IF discountOnly(line)
        THEN [same EXCEPT
                  !.out = Append(out, trim(collapseSpaces(
                              Chars("DISCOUNT")
                                  \o (IF pendingPromoSku # None /\ Len(pendingPromoSku[1]) > 0
                                      THEN <<" ">> \o pendingPromoSku[1] ELSE <<>>)
                                  \o <<" ">> \o line))),
                  !.pendingPromoSku = None]
        ELSE IF /\ pendingSkuNoPrice # None
                /\ pricedSkuLine(line)
                /\ i + 1 <= Len(lines)
                /\ priceOnly(lines[i + 1])
                /\ trailingPriceAt(line) > 0
        THEN With(trailingPriceAt(line), LAMBDA at :
                 [same EXCEPT
                      !.i = i + 2,
                      !.out = out \o <<costcoJoin(pendingSkuNoPrice[1],
                                                  SubSeq(line, at, Len(line))),
                                       costcoJoin(trim(SubSeq(line, 1, at - 1)),
                                                  trim(lines[i + 1]))>>,
                      !.pendingSkuNoPrice = None])
        ELSE IF pendingSkuNoPrice # None /\ priceOnly(line)
        THEN [same EXCEPT !.out = Append(out, costcoJoin(pendingSkuNoPrice[1], line)),
                          !.pendingSkuNoPrice = None]
        ELSE IF skuStartEnd(line) > 0 /\ ~pricedSkuLine(line)
        THEN [same EXCEPT !.pendingSkuNoPrice = Some(line),
                          !.held = Some(line)]
        ELSE [same EXCEPT !.out = Append(out, line)]))

MaxCostcoLines == 3

CostcoLines ==
    {Chars("12345 FIESTA DIP"),
     Chars("4321 CHIPS"),
     Chars("67890 MELON 7.89 N"),
     Chars("5.69 N"),
     Chars("350276 /1207907"),
     Chars("7.80-"),
     Chars("BAG"),
     Chars("Member")}

InitCostco ==
    /\ ParserIdle
    /\ inv = invIdle
    /\ db = dbIdle
    /\ req = reqIdle
    /\ call \in {[fn |-> "buildCostcoLogicalStable", state |-> "loop", linesIn |-> ls,
                  lines |-> cleanLines(ls), i |-> 1, out |-> <<>>,
                  pendingSkuNoPrice |-> None, pendingPromoSku |-> None,
                  held |-> <<>>, result |-> None] :
                     ls \in UNION {[1..n -> CostcoLines] : n \in 0..MaxCostcoLines}}

\* one pass of the loop; held keeps the lines that were held
CostcoLoopStep ==
    /\ call.fn = "buildCostcoLogicalStable"
    /\ call.state = "loop"
    /\ call.i <= Len(call.lines)
    /\ With(costcoStep(call.lines, call.i, call.out, call.pendingSkuNoPrice,
                       call.pendingPromoSku), LAMBDA st :
           call' = [call EXCEPT !.i = st.i, !.out = st.out,
                                !.pendingSkuNoPrice = st.pendingSkuNoPrice,
                                !.pendingPromoSku = st.pendingPromoSku,
                                !.held = call.held \o st.held])
    /\ UNCHANGED <<parseVars, sc, inv, db, req>>

\* if (pendingSkuNoPrice) out.push(pendingSkuNoPrice); return out
CostcoReturn ==
    /\ call.fn = "buildCostcoLogicalStable"
    /\ call.state = "loop"
    /\ call.i > Len(call.lines)
    /\ call' = [call EXCEPT
                    !.state = "returned",
                    !.result = Some(IF call.pendingSkuNoPrice # None
                                       /\ Len(call.pendingSkuNoPrice[1]) > 0
                                    THEN Append(call.out, call.pendingSkuNoPrice[1])
                                    ELSE call.out)]
    /\ UNCHANGED <<parseVars, sc, inv, db, req>>

NextCostco == CostcoLoopStep \/ CostcoReturn

SpecCostco == InitCostco /\ [][NextCostco]_vars

(***************************************************************************)
(* POST /v1/inventory/lots/:id/consume and /adjust: requests run side by   *)
(* side, each statement of a handler's transaction is one step.  The       *)
(* database is PostgreSQL at READ COMMITTED: a statement reads what is     *)
(* committed (and what its own transaction wrote), an UPDATE waits for the *)
(* row lock and then works on the committed row, a throw rolls back.       *)
(***************************************************************************)
NumRequests == 2
Requests == 1..NumRequests
LotIds == {"lotA", "lotB"}
RequestIds == {"r1", "r2"}
StartRemaining == 3

\* the requests the clients send: path parameter, requestId and body
ConsumeBodies ==
    {[kind |-> "consume", lotId |-> "lotA", unit |-> "g", qty |-> 1],
     [kind |-> "consume", lotId |-> "lotA", unit |-> "g", qty |-> 3],
     [kind |-> "consume", lotId |-> "lotB", unit |-> "g", qty |-> 1],
     [kind |-> "consume", lotId |-> "lotA", unit |-> "each", qty |-> 1]}
AdjustBodies ==
    {[kind |-> "adjust", lotId |-> "lotA", mode |-> "delta", amount |-> 0 - 2],
     [kind |-> "adjust", lotId |-> "lotA", mode |-> "set", amount |-> 1]}

\* a request before its handler runs
reqStart(body, rid) ==
    [pc |-> "requireMember", body |-> body, requestId |-> rid, lot |-> None,
     prior |-> None, after |-> None, ev |-> None, res |-> None,
     usedAtStart |-> FALSE, rowAtUpdate |-> None]

InitLot ==
    /\ ParserIdle
    /\ call = callIdle
    /\ inv = invIdle
    /\ db = [tables |-> "inventory",
             lots |-> [l \in LotIds |->
                          [quantityRemaining |-> StartRemaining, unitCode |-> "g"]],
             lock |-> [l \in LotIds |-> 0],
             events |-> <<>>,
             decrements |-> <<>>]
    /\ req \in {[p \in Requests |-> reqStart(b[p], r[p])] :
                   b \in [Requests -> ConsumeBodies \cup AdjustBodies],
                   r \in [Requests -> RequestIds]}

\* the row of lot l as a statement of request p reads it
lotRow(p, l) ==
    IF db.lock[l] = p
    THEN [db.lots[l] EXCEPT !.quantityRemaining = req[p].after[1]]
    ELSE db.lots[l]

\* findPriorEvent: the first stored event of the household with this requestId
findPriorEvent(events, requestId) ==
    With(SelectSeq(events, LAMBDA e : e.requestId = requestId), LAMBDA found :
         IF Len(found) > 0 THEN Some(found[1]) ELSE None)

\* no check of the unique index
uniqueViolation_none(events, ev) == FALSE

\* InventoryEvent_householdId_requestId_key: a stored event has the requestId of ev
uniqueViolation(events, ev) == \E k \in 1..Len(events) : events[k].requestId = ev.requestId

\* the locks of request p released
released(p) == [l \in LotIds |-> IF db.lock[l] = p THEN 0 ELSE db.lock[l]]

\* a throw inside the transaction: rollback, then sendSafeError
thrown(p, status, code) ==
    /\ db' = [db EXCEPT !.lock = released(p)]
    /\ req' = [req EXCEPT ![p].pc = "done", ![p].after = None, ![p].ev = None,
                          ![p].res = Some([ok |-> FALSE, status |-> status, error |-> code])]

\* requireMember, requireRequestId and the checks of the body
LotRequireMember ==
    \E p \in Requests :
        /\ req[p].pc = "requireMember"
        /\ req' = [req EXCEPT ![p].pc = "findLot",
                              ![p].usedAtStart =
                                  findPriorEvent(db.events, req[p].requestId) # None]
        /\ UNCHANGED <<parseVars, sc, call, inv, db>>

\* tx.inventoryLot.findFirst
LotFindLot ==
    \E p \in Requests :
        /\ req[p].pc = "findLot"
        /\ req' = [req EXCEPT ![p].pc = "findPrior",
                              ![p].lot = Some(lotRow(p, req[p].body.lotId))]
        /\ UNCHANGED <<parseVars, sc, call, inv, db>>

\* findPriorEvent and the branch on prior?.entityId
LotFindPrior ==
    \E p \in Requests :
        /\ req[p].pc = "findPrior"
        /\ With(findPriorEvent(db.events, req[p].requestId), LAMBDA prior :
               req' = [req EXCEPT ![p].prior = prior,
                                  ![p].pc = IF prior # None THEN "priorLot" ELSE "update"])
        /\ UNCHANGED <<parseVars, sc, call, inv, db>>

\* the idempotent return: the current lot of the prior event
LotReturnPrior ==
    \E p \in Requests :
        /\ req[p].pc = "priorLot"
        /\ req' = [req EXCEPT
                       ![p].pc = "done",
                       ![p].res = Some([ok |-> TRUE, idempotent |-> TRUE,
                                        lotId |-> req[p].prior[1].entityId,
                                        lot |-> lotRow(p, req[p].prior[1].entityId)])]
        /\ UNCHANGED <<parseVars, sc, call, inv, db>>

\* consume: the unit guard, the check of the loaded lot, the guarded updateMany
\* and the check of updated.count
LotConsumeUpdate ==
    \E p \in Requests :
        /\ req[p].pc = "update"
        /\ req[p].body.kind = "consume"
        /\ With(req[p].body, LAMBDA b :
               IF req[p].lot[1].unitCode # b.unit
               THEN thrown(p, 400, "UNIT_MISMATCH")
               ELSE IF b.qty > req[p].lot[1].quantityRemaining
               THEN thrown(p, 400, "INSUFFICIENT_REMAINING")
               ELSE /\ db.lock[b.lotId] = 0
                    /\ With(db.lots[b.lotId].quantityRemaining, LAMBDA row :
                           IF row >= b.qty
                           THEN /\ db' = [db EXCEPT !.lock[b.lotId] = p]
                                /\ req' = [req EXCEPT ![p].pc = "event",
                                                      ![p].after = Some(row - b.qty),
                                                      ![p].rowAtUpdate = Some(row)]
                           ELSE thrown(p, 400, "INSUFFICIENT_REMAINING")))
        /\ UNCHANGED <<parseVars, sc, call, inv>>

\* afterRemaining of an adjust request that loaded a lot with beforeRemaining
afterRemaining(b, beforeRemaining) ==
    IF b.mode = "set" THEN b.amount ELSE beforeRemaining + b.amount

\* adjust: afterRemaining from the loaded lot, its check, and the update
LotAdjustUpdate ==
    \E p \in Requests :
        /\ req[p].pc = "update"
        /\ req[p].body.kind = "adjust"
        /\ With(req[p].body, LAMBDA b :
               With(afterRemaining(b, req[p].lot[1].quantityRemaining), LAMBDA a :
                   IF a < 0
                   THEN thrown(p, 400, "INVALID_REMAINING")
                   ELSE /\ db.lock[b.lotId] = 0
                        /\ db' = [db EXCEPT !.lock[b.lotId] = p]
                        /\ req' = [req EXCEPT
                                       ![p].pc = "event",
                                       ![p].after = Some(a),
                                       ![p].rowAtUpdate =
                                           Some(db.lots[b.lotId].quantityRemaining)]))
        /\ UNCHANGED <<parseVars, sc, call, inv>>

\* the event a handler creates
eventOf(r) ==
    [type |-> IF r.body.kind = "consume" THEN "LOT_CONSUMED" ELSE "LOT_ADJUSTED",
     entityId |-> r.body.lotId, requestId |-> r.requestId]

\* tx.inventoryEvent.create: it waits for an uncommitted event with the same
\* requestId, and throws on the unique index
LotCreateEvent ==
    \E p \in Requests :
        /\ req[p].pc = "event"
        /\ \A q \in Requests \ {p} :
               IF req[q].ev = None THEN TRUE
               ELSE req[q].ev[1].requestId # req[p].requestId
        /\ IF uniqueViolation(db.events, eventOf(req[p]))
           THEN thrown(p, 500, "INTERNAL_ERROR")
           ELSE /\ req' = [req EXCEPT ![p].pc = "commit", ![p].ev = Some(eventOf(req[p]))]
                /\ UNCHANGED db
        /\ UNCHANGED <<parseVars, sc, call, inv>>

\* the transaction commits and the handler answers; decrements keeps the
\* committed decrements of consume requests
LotCommit ==
    \E p \in Requests :
        /\ req[p].pc = "commit"
        /\ With(req[p].body.lotId, LAMBDA l :
               /\ db' = [db EXCEPT !.lots[l].quantityRemaining = req[p].after[1],
                                   !.lock = released(p),
                                   !.events = Append(@, req[p].ev[1]),
                                   !.decrements =
                                       IF req[p].body.kind = "consume"
                                       THEN Append(@, [requestId |-> req[p].requestId,
                                                       lotId |-> l,
                                                       qty |-> req[p].body.qty])
                                       ELSE @]
               /\ req' = [req EXCEPT
                              ![p].pc = "done",
                              ![p].ev = None,
                              ![p].res = Some([ok |-> TRUE, idempotent |-> FALSE,
                                               lotId |-> l,
                                               lot |-> [db.lots[l] EXCEPT
                                                   !.quantityRemaining = req[p].after[1]]])])
        /\ UNCHANGED <<parseVars, sc, call, inv>>

NextLot ==
    \/ LotRequireMember
    \/ LotFindLot
    \/ LotFindPrior
    \/ LotReturnPrior
    \/ LotConsumeUpdate
    \/ LotAdjustUpdate
    \/ LotCreateEvent
    \/ LotCommit

SpecLot == InitLot /\ [][NextLot]_vars

(***************************************************************************)
(* uploadReceiptHandler: uploads run side by side, every await of the      *)
(* handler is one step.  The handler opens no transaction around the       *)
(* lookup and the create, and ReceiptRaw has no unique index on            *)
(* (householdId, sourceHash).                                              *)
(***************************************************************************)
NumUploads == 2
Uploads == 1..NumUploads
HouseholdIds == {"h1", "h2"}
FileBytes == {"bytesA", "bytesB"}

\* sha256: a digest of the bytes, different bytes give different digests
sha256(buf) == <<"sha256", buf>>

\* an upload before its handler runs; vendorFound is what extractReceipt
\* makes of the file together with the vendor of the body
uploadStart(h, buf, vendorFound) ==
    [pc |-> "findExisting", householdId |-> h, buffer |-> buf,
     vendorFound |-> vendorFound, res |-> None]

\* a row of ReceiptRaw
receiptRow(id, h, hash, deleted) ==
    [id |-> id, householdId |-> h, sourceHash |-> hash, deleted |-> deleted]

InitUpload ==
    /\ ParserIdle
    /\ call = callIdle
    /\ inv = invIdle
    /\ db \in {[tables |-> "receipts", receipts |-> rows] :
                  rows \in {<<>>, <<receiptRow(1, "h1", sha256("bytesA"), TRUE)>>}}
    /\ req \in {[p \in Uploads |-> uploadStart(h[p], b[p], v[p])] :
                   h \in [Uploads -> HouseholdIds],
                   b \in [Uploads -> FileBytes],
                   v \in [Uploads -> BOOLEAN]}

\* prisma.receiptRaw.findFirst({ where: { householdId, sourceHash, deletedAt: null } })
findExisting(receipts, h, hash) ==
    With(SelectSeq(receipts, LAMBDA r :
             r.householdId = h /\ r.sourceHash = hash /\ ~r.deleted),
         LAMBDA found : IF Len(found) > 0 THEN Some(found[1]) ELSE None)

\* the lookup and the deduped answer
UploadFindExisting ==
    \E p \in Uploads :
        /\ req[p].pc = "findExisting"
        /\ With(findExisting(db.receipts, req[p].householdId, sha256(req[p].buffer)),
                LAMBDA existing :
               IF existing # None
               THEN req' = [req EXCEPT
                                ![p].pc = "done",
                                ![p].res = Some([status |-> 200, deduped |-> TRUE,
                                                 receipt |-> existing[1].id])]
               ELSE req' = [req EXCEPT ![p].pc = "extract"])
        /\ UNCHANGED <<parseVars, sc, call, inv, db>>

\* extractReceipt and the vendor check
UploadExtract ==
    \E p \in Uploads :
        /\ req[p].pc = "extract"
        /\ IF req[p].vendorFound
           THEN req' = [req EXCEPT ![p].pc = "create"]
           ELSE req' = [req EXCEPT
                            ![p].pc = "done",
                            ![p].res = Some([status |-> 422, deduped |-> FALSE,
                                             receipt |-> 0])]
        /\ UNCHANGED <<parseVars, sc, call, inv, db>>

\* prisma.receiptRaw.create and the 201 answer
UploadCreate ==
    \E p \in Uploads :
        /\ req[p].pc = "create"
        /\ With(Len(db.receipts) + 1, LAMBDA id :
               /\ db' = [db EXCEPT !.receipts =
                             Append(@, receiptRow(id, req[p].householdId,
                                                  sha256(req[p].buffer), FALSE))]
               /\ req' = [req EXCEPT
                              ![p].pc = "done",
                              ![p].res = Some([status |-> 201, deduped |-> FALSE,
                                               receipt |-> id])])
        /\ UNCHANGED <<parseVars, sc, call, inv>>

NextUpload == UploadFindExisting \/ UploadExtract \/ UploadCreate

SpecUpload == InitUpload /\ [][NextUpload]_vars

(***************************************************************************)
(* The stitching loop on its own, over raw lines of every class.  parts    *)
(* and pendingParts keep, for every logical line and for the pending       *)
(* buffer, the indexes of the raw lines they were made of.                 *)
(***************************************************************************)
MaxStitchLines == 3

StitchLines ==
    {Chars("BANANAS"),
     Chars("ORGANIC  KALE"),
     Chars("2 lb"),
     Chars("12345"),
     Chars("E"),
     Chars("MILK 3.49"),
     Chars("TOTAL 9.44"),
     Chars("351935 /847909 4.00-")}

InitStitch ==
    /\ ParserIdle
    /\ inv = invIdle
    /\ db = dbIdle
    /\ req = reqIdle
    /\ call \in {[fn |-> "stitch", rawLines |-> ls, ri |-> 1, logical |-> <<>>,
                  pending |-> None, parts |-> <<>>, pendingParts |-> <<>>,
                  done |-> FALSE] :
                    ls \in UNION {[1..n -> StitchLines] : n \in 0..MaxStitchLines}}

\* parts after flush()
flushedParts(parts, pendingParts, hasPending) ==
    IF hasPending THEN Append(parts, pendingParts) ELSE parts

\* parts and pendingParts after the pass of the loop over raw line k of
\* class `class`
partsStep(parts, pendingParts, hasPending, class, k) ==
    IF class \in {"separator", "discountRef"}
    THEN [parts |-> Append(flushedParts(parts, pendingParts, hasPending), <<k>>),
          pendingParts |-> <<>>]
    ELSE IF class = "total"
    THEN IF hasPending
         THEN [parts |-> Append(parts, Append(pendingParts, k)), pendingParts |-> <<>>]
         ELSE [parts |-> Append(parts, <<k>>), pendingParts |-> pendingParts]
    ELSE IF class = "continuation"
    THEN IF hasPending
         THEN [parts |-> parts, pendingParts |-> Append(pendingParts, k)]
         ELSE IF Len(parts) > 0
         THEN [parts |-> [parts EXCEPT ![Len(parts)] = Append(@, k)],
               pendingParts |-> pendingParts]
         ELSE [parts |-> parts, pendingParts |-> <<k>>]
    ELSE [parts |-> flushedParts(parts, pendingParts, hasPending), pendingParts |-> <<k>>]

\* one pass of `for (const l0 of rawLines)`
StitchLoopStep ==
    /\ call.fn = "stitch"
    /\ ~call.done
    /\ call.ri <= Len(call.rawLines)
    /\ With(trim(call.rawLines[call.ri]), LAMBDA l :
           With(stitchStep(call.logical, call.pending, l), LAMBDA st :
               With(partsStep(call.parts, call.pendingParts,
                              call.pending # None /\ Len(call.pending[1]) > 0,
                              LineClass(l), call.ri),
                    LAMBDA g :
                   call' = [call EXCEPT !.logical = st.logical, !.pending = st.pending,
                                        !.parts = g.parts,
                                        !.pendingParts = g.pendingParts,
                                        !.ri = @ + 1])))
    /\ UNCHANGED <<parseVars, sc, inv, db, req>>

\* the flush() after the loop
StitchFlush ==
    /\ call.fn = "stitch"
    /\ ~call.done
    /\ call.ri > Len(call.rawLines)
    /\ call' = [call EXCEPT
                    !.logical = Flushed(call.logical, call.pending),
                    !.pending = None,
                    !.parts = flushedParts(call.parts, call.pendingParts,
                                  call.pending # None /\ Len(call.pending[1]) > 0),
                    !.pendingParts = <<>>,
                    !.done = TRUE]
    /\ UNCHANGED <<parseVars, sc, inv, db, req>>

NextStitch == StitchLoopStep \/ StitchFlush

SpecStitch == InitStitch /\ [][NextStitch]_vars

(***************************************************************************)
(* Properties                                                              *)
(***************************************************************************)
\* w occurs in s as a contiguous run
isSubstring(w, s) == \E i \in 1..(Len(s) + 1) : StartsAt(s, i, w)

\* the text of a line up to runs of whitespace
normalized(l) == trim(SingleSpaces(l, 1))

\* the lines the stitcher holds: the logical lines and the pending buffer
held == IF pending = None THEN logical ELSE Append(logical, pending[1])

\* the number of raw lines the stitching loop has consumed
consumed == IF pc \in {"start", "vendor"} THEN 0 ELSE ri - 1

\* C1: stitcher no-loss.  At every point of the stitching loop, and after the
\* final flush, the text of every raw line consumed so far (up to runs of
\* whitespace, which the joins collapse) is contained in one of the logical
\* lines or in the pending buffer, and these lines together are the consumed
\* raw lines in their order; after the final flush the pending buffer is
\* empty, so every raw line is in the list of logical lines.
C1_StitcherNoLoss ==
    /\ \A k \in 1..consumed :
           \E j \in 1..Len(held) :
               isSubstring(normalized(rawLines[k]), normalized(held[j]))
    /\ JoinWith(MapSeq(held, normalized), <<" ">>)
           = JoinWith(MapSeq(SubSeq(rawLines, 1, consumed), normalized), <<" ">>)
    /\ pc \notin {"start", "vendor", "stitch"} => pending = None

\* three raw lines stitched into one logical line, after the final flush
C1_Witness ==
    /\ pc = "split"
    /\ Len(rawLines) = 3
    /\ Len(logical) = 1

\* the number of positions of seq that hold x
countOf(seq, x) == Cardinality({k \in 1..Len(seq) : seq[k] = x})

rawLineTexts == [k \in 1..Len(items) |-> items[k].rawLineText]

\* C2: the items are never more than the logical lines that have reached the
\* item extractor, every item's rawLineText is one of those lines, and no
\* logical line stands behind more than one item.
C2_ItemsTraceToLines ==
    pc \in {"items", "done"} =>
        /\ Len(items) <= li
        /\ li <= Len(logicalFixed)
        /\ \A k \in 1..Len(items) :
               countOf(rawLineTexts, items[k].rawLineText)
                   <= countOf(SubSeq(logicalFixed, 1, li), items[k].rawLineText)

\* a finished parse with an item pushed and a priced line dropped
C2_Witness ==
    /\ pc = "done"
    /\ Len(items) >= 1
    /\ pricedLineCount > Len(items)
    /\ Len(items) < Len(logicalFixed)

\* C3: discount normalization.  Every item whose lineTotal is negative has a
\* name that starts with DISCOUNT.
C3_NegativeIsDiscount ==
    \A k \in 1..Len(items) :
        (items[k].lineTotal # None /\ items[k].lineTotal[1] < 0)
            => StartsAt(items[k].name, 1, DISCOUNT)

BananasText ==
    JoinWith(<<Chars("BANANAS"), Chars("3.04 lb @ 0.54"), Chars("1.64")>>, <<NL>>)

\* C4: the raw lines "BANANAS", "3.04 lb @ 0.54", "1.64" give exactly one
\* item: name BANANAS, weight 3.04, unit lb, unitPrice 0.54, lineTotal 1.64,
\* produceMeta.mathValidated true.
C4_BananasScenario ==
    (pc = "done" /\ fullText = BananasText) =>
        /\ Len(items) = 1
        /\ items[1].name = Chars("BANANAS")
        /\ items[1].weight = Some(Dec(304, 2))
        /\ items[1].unit = Some("lb")
        /\ items[1].unitPrice = Some(54)
        /\ items[1].lineTotal = Some(164)
        /\ items[1].produceMeta # None
        /\ items[1].produceMeta[1].mathValidated

DiscountText == JoinWith(<<Chars("350276 /1207907"), Chars("7.80-")>>, <<NL>>)

\* C5: the raw lines "350276 /1207907", "7.80-" give exactly one item, with
\* lineTotal -7.80 and a name that is a DISCOUNT label carrying the reference
\* 1207907.
C5_DiscountScenario ==
    (pc = "done" /\ fullText = DiscountText) =>
        /\ Len(items) = 1
        /\ items[1].lineTotal = Some(0 - 780)
        /\ StartsAt(items[1].name, 1, DISCOUNT)
        /\ isSubstring(Chars("1207907"), items[1].name)

\* C6: token-removal precision.  After the item loop has taken a line with a
\* line-total token (raw, start, end): the line at [start, end) is raw, what
\* the loop keeps is the line without exactly that span, and raw put back at
\* offset start gives the line again.
C6_TokenRemoval ==
    (pc \in {"items", "done"} /\ lastTok # None) =>
        /\ slice(logicalFixed[li], lastTok[1].start, lastTok[1].end) = lastTok[1].raw
        /\ lastNoPrice # None
        /\ Len(lastNoPrice[1]) + Len(lastTok[1].raw) = Len(logicalFixed[li])
        /\ slice(lastNoPrice[1], 0, lastTok[1].start) \o lastTok[1].raw
               \o sliceFrom(lastNoPrice[1], lastTok[1].start)
           = logicalFixed[li]

\* the token taken is not the last occurrence of its text in the line
C6_Witness ==
    /\ pc = "items"
    /\ lastTok # None
    /\ lastIndexOf(logicalFixed[li], lastTok[1].raw) > lastTok[1].start

\* the score of a parse with no items: 0.20 vendor + 0.20 date + 0.25 total
flagsScore ==
    <<(IF vendor # None THEN 20 ELSE 0) + (IF purchaseDate # None THEN 20 ELSE 0)
          + (IF total # None THEN 25 ELSE 0), 100>>

\* C7 as stated: a parse that extracts no purchasable line returns zero
\* lines, confidence exactly 0 and needsReview = true.
C7_UnparseableZeroConfidence ==
    (pc = "done" /\ Len(items) = 0) => (needsReview /\ confidence[1] = 0)

\* C7 amended: a parse that extracts no purchasable line returns zero lines
\* and needsReview = true, and its confidence is 0.20 for a vendor + 0.20 for
\* a date + 0.25 for a total: exactly 0 when none of them is found, as for
\* the empty text.
C7_UnparseableFlagsOnly ==
    /\ (pc = "done" /\ Len(items) = 0) => (needsReview /\ REq(confidence, flagsScore))
    /\ (pc = "done" /\ fullText = <<>>) => (Len(items) = 0 /\ confidence[1] = 0)

\* no item, and still a vendor, a date and a total that count
C7_Witness ==
    /\ pc = "done"
    /\ Len(items) = 0
    /\ Len(rawLines) > 0
    /\ REq(confidence, <<65, 100>>)
    /\ needsReview

\* the configured minimum: 0.85 unless a finite number is configured
configuredMinimum ==
    IF minConfEnv.kind = "number" THEN <<minConfEnv.num, minConfEnv.den>> ELSE <<85, 100>>

\* C8: review gate.  needsReview is true exactly when the confidence is below
\* the configured minimum (0.85 when none or no finite number is
\* configured), or fewer than 3 items were extracted, or no total was found.
C8_ReviewGate ==
    pc = "done" =>
        (needsReview <=>
            \/ confidence[1] * configuredMinimum[2] < configuredMinimum[1] * confidence[2]
            \/ Len(items) < 3
            \/ total = None)

\* a result that needs no review
C8_Witness ==
    /\ pc = "done"
    /\ ~needsReview
    /\ Len(items) >= 3

\* a + b (in lowest terms) and min(a, b) on fractions <<numerator, denominator>>
RECURSIVE GCD(_, _)
GCD(a, b) == IF b = 0 THEN a ELSE GCD(b, a % b)
Lowest(a) == <<a[1] \div GCD(a[1], a[2]), a[2] \div GCD(a[1], a[2])>>
RAdd(a, b) == Lowest(<<a[1] * b[2] + b[1] * a[2], a[2] * b[2]>>)
RMin(a, b) == IF RLeq(a, b) THEN a ELSE b

\* 0.20 vendor + 0.20 date + 0.25 total + min(0.20, lineCount / 40)
\* + min(0.15, (pricedLineCount / lineCount) * 0.25), the last term 0 when
\* lineCount = 0
statedScore(o) ==
    RAdd(RAdd(RAdd(IF o.hasVendor THEN <<20, 100>> ELSE <<0, 1>>,
                   IF o.hasDate THEN <<20, 100>> ELSE <<0, 1>>),
              IF o.hasTotal THEN <<25, 100>> ELSE <<0, 1>>),
         RAdd(RMin(<<20, 100>>, <<o.lineCount, 40>>),
              IF o.lineCount = 0 THEN <<0, 1>>
              ELSE RMin(<<15, 100>>, <<o.pricedLineCount * 25, o.lineCount * 100>>)))

\* C9: scoreConfidence returns the stated sum, and the result is in [0, 1].
C9_ScoreFormula ==
    sc.state \in {"scored", "raised"} =>
        /\ REq(sc.score, statedScore(sc.opts))
        /\ RLeq(<<0, 1>>, sc.score)
        /\ RLeq(sc.score, <<1, 1>>)

\* more priced lines than lines, and enough lines to reach the 0.20 cap
C9_Witness ==
    /\ sc.state = "scored"
    /\ sc.opts.pricedLineCount > sc.opts.lineCount
    /\ sc.opts.lineCount >= 8
    /\ sc.opts.hasVendor /\ sc.opts.hasDate /\ sc.opts.hasTotal
    /\ REq(sc.score, <<1, 1>>)

\* C10: with lineCount and pricedLineCount fixed, flags going from false to
\* true never decrease the score.
C10_Monotone ==
    sc.state = "raised" =>
        /\ sc.opts.lineCount = sc.from.lineCount
        /\ sc.opts.pricedLineCount = sc.from.pricedLineCount
        /\ RLeq(sc.before, sc.score)

\* all three flags raised at once, the score strictly higher
C10_Witness ==
    /\ sc.state = "raised"
    /\ ~(sc.from.hasVendor \/ sc.from.hasDate \/ sc.from.hasTotal)
    /\ sc.opts.hasVendor /\ sc.opts.hasDate /\ sc.opts.hasTotal
    /\ RLess(sc.before, sc.score)

\* all four of weight, unit, unitPrice and lineTotal are resolved
allResolved(r) ==
    r.weight # None /\ r.unit # None /\ r.unitPrice # None /\ r.lineTotal # None

\* |weight * unitPrice - lineTotal| <= max(tolerance, 0.02), tolerance
\* defaulting to 0.02, in exact arithmetic
withinStated(r, tolerance) ==
    With(Pow10(r.weight[1].d + r.unitPrice[1].d), LAMBDA scale :
        Abs(r.weight[1].n * r.unitPrice[1].n * 100 - r.lineTotal[1] * scale)
            <= Max2(IF tolerance = None THEN 2 ELSE tolerance[1], 2) * scale)

\* weight 3.04, unit lb, unitPrice 0.54 and the given lineTotal
isBananas(r, lineTotal) ==
    /\ r.weight = Some(Dec(304, 2))
    /\ r.unit = Some("lb")
    /\ r.unitPrice = Some(Dec(54, 2))
    /\ r.lineTotal = Some(lineTotal)

\* C11: produce math validation.  detectProduce sets mathValidated exactly
\* when weight, unit, unitPrice and lineTotal are all resolved and
\* |weight * unitPrice - lineTotal| <= max(tolerance, 0.02); weight 3.04 at
\* 0.54 with lineTotal 1.64 is validated, and the same line with lineTotal
\* 2.50 is not and has a strictly lower confidenceScore.
C11_MathValidation ==
    (call.fn = "detectProduce" /\ call.state \in {"called", "perturbed"}
        /\ call.result # None) =>
        /\ call.result[1].mathValidated
               <=> (allResolved(call.result[1])
                       /\ withinStated(call.result[1], call.tolerance))
        /\ isBananas(call.result[1], 164) => call.result[1].mathValidated
        /\ (call.state = "perturbed" /\ call.before # None
                /\ isBananas(call.before[1], 164) /\ isBananas(call.result[1], 250))
               => /\ ~call.result[1].mathValidated
                  /\ call.result[1].confidenceScore < call.before[1].confidenceScore

\* the item loop has been over logical line j (1-based) and called
\* detectProduce on it
producedOn(j) ==
    /\ pc \in {"items", "done"}
    /\ j \in 1..li
    /\ ~skipsLine(logicalFixed[j], pickLineTotalToken(logicalFixed[j]))

\* the produce results of a line, one for each way the doubles may round
produceResults(l) ==
    {detectProduce(l, produceTolerance, tieWithin) : tieWithin \in BOOLEAN} \ {None}

\* weight, unit, unitPrice and lineTotal resolved and the math not validated
mathFailed(r) == allResolved(r) /\ ~r.mathValidated

emitted(l) == \E k \in 1..Len(items) : items[k].rawLineText = l

\* 0.35 weight and unit + 0.35 unitPrice + 0.20 lineTotal + 0.10 namePart
baseOfResolved(r) ==
    (IF r.weight # None /\ r.unit # None THEN 35 ELSE 0)
        + (IF r.unitPrice # None THEN 35 ELSE 0)
        + (IF r.lineTotal # None THEN 20 ELSE 0)
        + (IF r.namePart # None THEN 10 ELSE 0)

\* the same, the 0.10 only for a namePart that holds a letter
baseOfNamed(r) ==
    (IF r.weight # None /\ r.unit # None THEN 35 ELSE 0)
        + (IF r.unitPrice # None THEN 35 ELSE 0)
        + (IF r.lineTotal # None THEN 20 ELSE 0)
        + (IF r.namePart # None /\ hasLetter(r.namePart[1]) THEN 10 ELSE 0)

\* C12 as stated: for a line whose produce math fails, detectProduce returns
\* metadata with confidenceScore max(0.2, base - 0.15), base the additive
\* score of the resolved parts, and the item extractor emits an item for the
\* line.
C12_PenaltyNotRejection ==
    \A j \in 1..Len(logicalFixed) :
        producedOn(j) =>
            \A r \in produceResults(logicalFixed[j]) :
                mathFailed(r[1]) =>
                    /\ r[1].confidenceScore = Max2(20, baseOfResolved(r[1]) - 15)
                    /\ emitted(logicalFixed[j])

\* the name the item loop derives for line l
derivedName(l, produce) ==
    With(pickLineTotalToken(l), LAMBDA totalTok :
    With(IF totalTok # None THEN removeSpan(trim(l), totalTok[1])
         ELSE removeLastOccurrence(trim(l)), LAMBDA cut :
        itemName(l, trim(stripTrailingMarker(trim(cut))), produce).name))

\* C12 amended: for a line whose produce math fails, detectProduce returns
\* metadata with confidenceScore max(0.2, base - 0.15), where the 0.10 of the
\* base is for a namePart that holds a letter, and the item extractor emits an
\* item for the line exactly when the name it derives is not empty.
C12_PenaltyNamedRows ==
    \A j \in 1..Len(logicalFixed) :
        producedOn(j) =>
            \A r \in produceResults(logicalFixed[j]) :
                mathFailed(r[1]) =>
                    /\ r[1].confidenceScore = Max2(20, baseOfNamed(r[1]) - 15)
                    /\ emitted(logicalFixed[j])
                           <=> Len(derivedName(logicalFixed[j], r)) > 0

\* a line whose math fails, emitted with the penalised confidence 0.85
C12_Witness ==
    /\ pc = "done"
    /\ \E k \in 1..Len(items) :
           /\ items[k].produceMeta # None
           /\ items[k].produceMeta[1].reason = "produce:full+mathMismatch"
           /\ items[k].produceMeta[1].confidenceScore = 85
           /\ items[k].weight # None /\ items[k].unit # None
           /\ items[k].unitPrice # None /\ items[k].lineTotal # None

\* C15: last-non-per-unit rule.  The token the item loop takes as line total
\* is the last money token of the line that is not followed by a unit-rate
\* marker; a token followed by a unit-rate marker is never taken.
C15_LastNonPerUnit ==
    (pc \in {"items", "done"} /\ lastTok # None) =>
        /\ ~isPerUnitMoneyToken(logicalFixed[li], lastTok[1].end)
        /\ \A k \in 1..Len(LineTotalHits(logicalFixed[li])) :
               LineTotalHits(logicalFixed[li])[k].start > lastTok[1].start
                   => LineTotalHits(logicalFixed[li])[k].perUnit

\* the raw lines as the stitching loop sees them
trimmedRawLines == [k \in 1..Len(rawLines) |-> trim(rawLines[k])]

\* C18: terminal markers stay alone.  After the stitcher, every raw line that
\* is a totals, tender, cash or header-noise line is a logical line of its
\* own: as many logical lines are that text, unmerged, as raw lines are.
C18_TerminalMarkersAlone ==
    pc \notin {"start", "vendor", "stitch"} =>
        \A k \in 1..Len(rawLines) :
            isSeparator(trimmedRawLines[k]) =>
                countOf(logical, trimmedRawLines[k])
                    >= countOf(trimmedRawLines, trimmedRawLines[k])

\* C19: logical line size.  After the stitcher, every logical line is one raw
\* line or 2 or 3 consecutive raw lines joined.
C19_AtMostThreeRawLines ==
    pc \notin {"start", "vendor", "stitch"} =>
        \A j \in 1..Len(logical) :
            \E a \in 1..Len(rawLines) : \E b \in a..Min2(a + 2, Len(rawLines)) :
                normalized(logical[j])
                    = JoinWith(MapSeq(SubSeq(rawLines, a, b), normalized), <<" ">>)

\* the geometry text was given and is not empty
geoExists == call.geoText # None /\ call.geoText[1] # <<>>

\* C13: source selection.  chooseOcrText returns the geometry text when the
\* mode is geo and the geometry text exists, the linear text when the mode is
\* text, and otherwise the geometry text only if it exists and its score is
\* strictly greater than the linear text's score plus 5; the geometry text is
\* never chosen when it is absent.
C13_SourceSelection ==
    (call.fn = "chooseOcrText" /\ call.state = "chosen") =>
        With(call.result[1], LAMBDA picked :
            /\ picked.chosenMode \in {"text", "geo"}
            /\ picked.chosenMode = "geo"
                   <=> /\ geoExists
                       /\ \/ call.mode = "geo"
                          \/ /\ call.mode = "auto"
                             /\ scoreReceiptText(call.geoText[1])
                                    > scoreReceiptText(call.text) + 10
            /\ picked.chosenMode = "geo" => picked.chosenText = call.geoText[1]
            /\ picked.chosenMode = "text" => picked.chosenText = call.text)

\* auto mode: the geometry text scores higher, by no more than 5, and the
\* linear text is chosen
C13_Witness ==
    /\ call.fn = "chooseOcrText"
    /\ call.state = "chosen"
    /\ call.mode = "auto"
    /\ geoExists
    /\ call.result[1].scores.geo > call.result[1].scores.text
    /\ call.result[1].scores.geo = call.result[1].scores.text + 10
    /\ call.result[1].chosenMode = "text"

\* the score the claim gives a detect result: true is 1, false is 0
claimedScore(result) ==
    IF result.t = "boolean" THEN (IF result.b THEN 1 ELSE 0)
    ELSE IF result.t = "number" THEN result.n
    ELSE 0

\* the adapters that score above 0 (NaN is not above 0)
scoringAdapters ==
    {k \in 1..Len(registry) : call.results[k].t # "NaN" /\ claimedScore(call.results[k]) > 0}

\* C14: vendor resolution.  detectVendorAdapter returns the adapter of highest
\* score among those that score above 0, the earliest registered of them when
\* several share that score; when none scores above 0 it returns null and no
\* hook of any adapter is applied.
C14_VendorResolution ==
    (call.fn = "detectVendorAdapter" /\ call.state \in {"returned", "applied"}) =>
        /\ scoringAdapters = {} => call.result = None
        /\ scoringAdapters # {} =>
               \E k \in scoringAdapters :
                   /\ call.result = Some(registry[k])
                   /\ \A j \in scoringAdapters :
                          /\ claimedScore(call.results[j]) <= claimedScore(call.results[k])
                          /\ j < k => claimedScore(call.results[j])
                                          < claimedScore(call.results[k])
        /\ call.state = "applied" => call.hooks = call.result
        /\ (call.state = "applied" /\ scoringAdapters = {}) => call.hooks = None

\* costco and amazon share the highest score, walmart scores lower but above
\* 0: costco is returned
C14_Witness ==
    /\ call.fn = "detectVendorAdapter"
    /\ call.state = "applied"
    /\ call.results[1] = boolResult(TRUE)
    /\ call.results[2] = numResult(5)
    /\ call.results[3] = numResult(5)
    /\ call.result = Some("costco")

\* the orders in which the words of ws can be emitted
emissionOrders(ws) ==
    {[i \in 1..Len(ws) |-> ws[p[i]]] :
         p \in {q \in [1..Len(ws) -> 1..Len(ws)] : \A i, j \in 1..Len(ws) : q[i] = q[j] => i = j}}

\* C16: geometry reading order.  For every list of words and every
\* permutation of it buildGeoLineObjects returns the same rows; the rows are
\* in non-decreasing order of vertical centre and the tokens of a row in
\* non-decreasing order of horizontal start.
C16_ReadingOrder ==
    (call.fn = "buildGeoLineObjects" /\ call.state = "returned") =>
        With(call.result[1], LAMBDA rows :
            /\ \A i \in 1..(Len(rows) - 1) : rows[i].y <= rows[i + 1].y
            /\ \A r \in 1..Len(rows) :
                   \A i \in 1..(Len(rows[r].tokens) - 1) :
                       rows[r].tokens[i].x <= rows[r].tokens[i + 1].x
            /\ \A ws \in emissionOrders(call.words) : buildGeoLineObjects(ws) = rows)

\* the word just placed and the rows it met
placedWord == call.sorted[call.k - 1]

aWordWasPlaced == call.fn = "buildGeoLineObjects" /\ call.state = "rows" /\ call.k > 1

\* C20: closest-row assignment.  The row found by the backward scan is a row
\* of minimum vertical distance to the word among all the rows existing at
\* that moment, early stop or not; the word joins that row if and only if
\* the distance is <= max(3, medianHeight * 0.65), otherwise a new row is
\* opened.
C20_ClosestRow ==
    aWordWasPlaced =>
        /\ call.yThresh
               = Max2(3 * GeoScale, (medianHeight(enrichWords(call.words)) * 65) \div 100)
        /\ call.before = <<>> =>
               call.lines = <<[y |-> placedWord.cy,
                               words |-> <<[x |-> placedWord.minX, text |-> placedWord.text]>>]>>
        /\ call.before # <<>> =>
               /\ call.scan.idx \in 1..Len(call.before)
               /\ call.scan.dist = Abs(call.before[call.scan.idx].y - placedWord.cy)
               /\ \A i \in 1..Len(call.before) :
                      call.scan.dist <= Abs(call.before[i].y - placedWord.cy)
               /\ IF call.scan.dist <= call.yThresh
                  THEN /\ Len(call.lines) = Len(call.before)
                       /\ \A i \in 1..Len(call.before) :
                              i # call.scan.idx => call.lines[i] = call.before[i]
                       /\ call.lines[call.scan.idx].words
                              = Append(call.before[call.scan.idx].words,
                                       [x |-> placedWord.minX, text |-> placedWord.text])
                       /\ call.lines[call.scan.idx].y * 2
                              = call.before[call.scan.idx].y + placedWord.cy
                  ELSE call.lines
                           = Append(call.before,
                                    [y |-> placedWord.cy,
                                     words |-> <<[x |-> placedWord.minX,
                                                  text |-> placedWord.text]>>])

\* the scan stopped early, before it had looked at the first row
C20_Witness ==
    /\ aWordWasPlaced
    /\ Len(call.before) >= 2
    /\ call.scan.stop >= 2

\* the word is at exactly the threshold from its row, and joins it
C20_JoinsAtThreshold ==
    /\ aWordWasPlaced
    /\ call.before # <<>>
    /\ call.scan.dist = call.yThresh
    /\ Len(call.lines) = Len(call.before)

RECURSIVE stitchAlone(_, _, _, _)
\* the stitching loop and the final flush run alone from line ri with
\* logical lg and pending pend: the logical lines
stitchAlone(lines, r, lg, pend) ==
    IF r > Len(lines) THEN Flushed(lg, pend)
    ELSE With(stitchStep(lg, pend, trim(lines[r])), LAMBDA st :
             stitchAlone(lines, r + 1, st.logical, st.pending))

\* what an invocation returns for rawLines when it runs alone
resultAlone(lines) == mergeProduceLines(splitMultiSkuLines(stitchAlone(lines, 1, <<>>, None)))

\* C17: parse independence.  With the steps of two invocations interleaved
\* in any order, each invocation returns the result it returns when run
\* alone, and at every step its pending buffer and its merger accumulators
\* are those of a run alone: carrying on alone from them gives that result.
C17_ParseIndependence ==
    inv # invIdle =>
        \A p \in Invocations :
            /\ inv[p].pc = "stitch" =>
                   mergeProduceLines(splitMultiSkuLines(
                       stitchAlone(inv[p].rawLines, inv[p].ri, inv[p].logical,
                                   inv[p].pending)))
                       = resultAlone(inv[p].rawLines)
            /\ inv[p].pc = "merge" =>
                   MergeFrom(inv[p].src, inv[p].i, inv[p].out, inv[p].mergedIdx)
                       = resultAlone(inv[p].rawLines)
            /\ inv[p].pc = "done" => inv[p].result = Some(resultAlone(inv[p].rawLines))

\* the second invocation has returned its lines while the first is inside
\* the stitching loop with a line in its pending buffer
C17_Witness ==
    /\ inv # invIdle
    /\ inv[1].pc = "stitch"
    /\ inv[1].ri > 1
    /\ inv[1].pending = Some(Chars("BANANAS"))
    /\ inv[2].pc = "done"
    /\ inv[2].result = Some([lines |-> <<Chars("MILK 3.49 2 lb")>>, mergedLineIndexes |-> <<>>])

\* "DISCOUNT <prefix> <amount>" for a discount-reference row
discountLabelOf(line) ==
    With(extractTailAmountAndFlag(line)[1], LAMBDA ex :
        trim(collapseSpaces(DISCOUNT \o <<" ">> \o ex.prefix \o <<" ">> \o ex.amount)))

\* C21: discount-reference rows keep their reference.  Every raw line made of
\* a letter-free non-empty prefix and a trailing negative amount is a logical
\* line of its own after the stitcher, and reaches the item extractor as the
\* single logical line "DISCOUNT <prefix> <amount>" with the whole prefix.
C21_DiscountReferenceKept ==
    pc \in {"totals", "items", "done"} =>
        \A k \in 1..Len(rawLines) :
            isDiscountRefRow(trimmedRawLines[k]) =>
                /\ \E j \in 1..Len(logical) : logical[j] = trimmedRawLines[k]
                /\ \E j \in 1..Len(logicalFixed) :
                       logicalFixed[j] = discountLabelOf(trimmedRawLines[k])

\* the last pass of the merger's loop started at line `at` and took lines
\* at .. i - 1 of src
aMergePassRan == call.fn = "mergeProduceLines" /\ call.state = "loop" /\ call.at > 0

linesTaken == call.i - call.at

\* a unit token, a weight (number and unit) and a rate marker in a line
hasUnitToken(line) ==
    \E i \in 1..Len(line) :
        WB(toLowerCase(line), i) /\ WordEnd(toLowerCase(line), i, UnitsProduce) # 0

hasWeightToken(line) ==
    \E i \in 1..Len(line) :
        WB(toLowerCase(line), i) /\ NumberUnitAt(toLowerCase(line), i, UnitsWeight) # None

hasRateMark(line) ==
    \/ \E i \in 1..Len(line) : line[i] = "@"
    \/ \E i \in 1..Len(line) :
           /\ line[i] = "/"
           /\ WordEnd(toLowerCase(line), SkipWs(line, i + 1), UnitsRate) # 0

hasDigit(line) == \E i \in 1..Len(line) : line[i] \in Digit

\* C22 as stated: the merger joins a name-only line with the following line
\* only when that line has both a unit token and a rate marker (@ or /unit).
C22_MergeNeedsRateMarker ==
    (aMergePassRan /\ linesTaken >= 2) =>
        /\ hasUnitToken(call.src[call.at + 1])
        /\ hasRateMark(call.src[call.at + 1])

\* C22, amended: the merger joins a line with the following line (and with a
\* third, money-only line when present) exactly when the line has a letter
\* and no money token and the following line has a digit, a unit token and a
\* weight or a rate marker; the joined lines become one output line.
C22_MergeOnProduceDetail ==
    aMergePassRan =>
        /\ linesTaken \in 1..3
        /\ linesTaken >= 2
               <=> /\ call.at + 1 <= Len(call.src)
                   /\ hasLetter(call.src[call.at])
                   /\ ~hasMoneyToken(call.src[call.at])
                   /\ hasDigit(call.src[call.at + 1])
                   /\ hasUnitToken(call.src[call.at + 1])
                   /\ (hasWeightToken(call.src[call.at + 1])
                          \/ hasRateMark(call.src[call.at + 1]))
        /\ linesTaken = 3 => isMoneyOnlyLine(call.src[call.at + 2])
        /\ (linesTaken = 2 /\ call.at + 2 <= Len(call.src))
               => ~isMoneyOnlyLine(call.src[call.at + 2])
        /\ call.out[Len(call.out)]
               = normalized(JoinWith(SubSeq(call.src, call.at, call.i - 1), <<" ">>))
        /\ linesTaken >= 2
               <=> (call.mergedIdx # <<>>
                       /\ call.mergedIdx[Len(call.mergedIdx)] = Len(call.out) - 1)

\* a name line joined with a weight line that has no rate marker and with the
\* money-only line after it
C22_Witness ==
    /\ aMergePassRan
    /\ linesTaken = 3
    /\ call.src[call.at] = Chars("BANANAS")
    /\ call.src[call.at + 1] = Chars("2 lb")
    /\ call.out[Len(call.out)] = Chars("BANANAS 2 lb 1.64")

\* what mergeProduceLines returned for the stitched lines
mergeOutput == mergeProduceLines(splitMultiSkuLines(logical))

\* the positions of mergeOutput.lines that semantic repair keeps
keptByRepair == {q \in 1..Len(mergeOutput.lines) : repairLine(mergeOutput.lines[q]) # <<>>}

\* the position in mergeOutput.lines of line j of logicalFixed after repair
originOf(j) == CHOOSE q \in keptByRepair : Cardinality({r \in keptByRepair : r <= q}) = j

\* line j of logicalFixed was created by mergeProduceLines joining lines
createdByMerge(j) ==
    \E k \in 1..Len(mergeOutput.mergedLineIndexes) :
        mergeOutput.mergedLineIndexes[k] = originOf(j) - 1

\* the item loop has just taken line li + 1 and pushed an item with produce
\* metadata for it
producePushed ==
    /\ pc = "items"
    /\ pc' = "items"
    /\ li' = li + 1
    /\ Len(items') = Len(items) + 1
    /\ items'[Len(items')].produceMeta # None

\* C23: produce-merge provenance.  An item carries produceMeta.mergeApplied =
\* true if and only if the logical line it was extracted from was created by
\* mergeProduceLines joining two or three lines, also when semantic repair
\* removed lines before it.
C23_MergeProvenance ==
    [][producePushed =>
           (items'[Len(items')].produceMeta[1].mergeApplied <=> createdByMerge(li + 1))]_vars

\* C24: Costco held SKU line.  Every line that buildCostcoLogicalStable held
\* (it starts with a SKU and has no price) is in the output, followed by a
\* price or alone, also when a second such line arrived while it was held.
C24_HeldSkuEmitted ==
    (call.fn = "buildCostcoLogicalStable" /\ call.state = "returned") =>
        \A h \in 1..Len(call.held) :
            Cardinality({j \in 1..Len(call.result[1]) :
                             StartsAt(call.result[1][j], 1, call.held[h])})
                >= countOf(call.held, call.held[h])

\* with at most one line held at a time, the held line is in the output
C24_SingleHeldEmitted ==
    (call.fn = "buildCostcoLogicalStable" /\ call.state = "returned" /\ Len(call.held) = 1) =>
        \E j \in 1..Len(call.result[1]) : StartsAt(call.result[1][j], 1, call.held[1])

\* the inventory requests have run
lotsInUse == db.tables = "inventory"

\* the request p has answered
answered(p) == req[p].pc = "done"

\* C25: whatever the order and interleaving of the consume requests, a lot
\* is decremented at most once and at most one LOT_CONSUMED event is stored
\* for a requestId of the household; a request whose requestId was already
\* used when it arrived answers with the lot of that event and
\* idempotent = true, and writes nothing.
C25_ConsumeIdempotent ==
    lotsInUse =>
        /\ \A rid \in RequestIds :
               /\ Len(SelectSeq(db.decrements, LAMBDA d : d.requestId = rid)) <= 1
               /\ Len(SelectSeq(db.events, LAMBDA e :
                          e.requestId = rid /\ e.type = "LOT_CONSUMED")) <= 1
        /\ \A p \in Requests :
               (answered(p) /\ req[p].usedAtStart) =>
                   /\ req[p].res[1].ok
                   /\ req[p].res[1].idempotent
                   /\ req[p].res[1].lotId = req[p].prior[1].entityId
                   /\ req[p].rowAtUpdate = None

\* two consume requests with one requestId have answered: one after the
\* other had committed (idempotent), or side by side (the second one thrown
\* by the unique index after its decrement)
C25_Witness ==
    /\ lotsInUse
    /\ \E p, q \in Requests :
           /\ p # q
           /\ answered(p) /\ answered(q)
           /\ req[p].body.kind = "consume" /\ req[q].body.kind = "consume"
           /\ req[p].requestId = req[q].requestId
           /\ req[p].res[1].ok /\ ~req[p].res[1].idempotent
           /\ \/ req[q].usedAtStart /\ req[q].res[1].ok /\ req[q].res[1].idempotent
              \/ ~req[q].res[1].ok /\ req[q].res[1].status = 500
                                   /\ req[q].rowAtUpdate # None

\* the second request of C25_Witness was thrown by the unique index
C25_WitnessSideBySide ==
    /\ lotsInUse
    /\ \E q \in Requests :
           /\ answered(q)
           /\ req[q].body.kind = "consume"
           /\ ~req[q].res[1].ok /\ req[q].res[1].status = 500
           /\ req[q].rowAtUpdate # None

\* the request p committed a write of its lot
wroteLot(p) == answered(p) /\ req[p].res[1].ok /\ ~req[p].res[1].idempotent

\* C26: quantityRemaining is never negative, whatever the interleaving of
\* consume and adjust requests; a consume that asks for more than the lot
\* has and an adjust whose result would be negative are rejected, so a
\* request that wrote the lot fitted the row it wrote.
C26_NonNegativeStock ==
    lotsInUse =>
        /\ \A l \in LotIds : db.lots[l].quantityRemaining >= 0
        /\ \A p \in Requests :
               /\ req[p].after # None => req[p].after[1] >= 0
               /\ (wroteLot(p) /\ req[p].body.kind = "consume") =>
                      req[p].body.qty <= req[p].rowAtUpdate[1]
               /\ (wroteLot(p) /\ req[p].body.kind = "adjust") =>
                      afterRemaining(req[p].body, req[p].rowAtUpdate[1]) >= 0

\* the part of C26 without the rejection of the adjust requests
C26_NeverNegative ==
    lotsInUse =>
        /\ \A l \in LotIds : db.lots[l].quantityRemaining >= 0
        /\ \A p \in Requests :
               /\ req[p].after # None => req[p].after[1] >= 0
               /\ (wroteLot(p) /\ req[p].body.kind = "consume") =>
                      req[p].body.qty <= req[p].rowAtUpdate[1]


\* the uploads have run
uploadsInUse == db.tables = "receipts"

\* the ReceiptRaw rows of household h with digest hash that are not deleted
liveReceipts(h, hash) ==
    SelectSeq(db.receipts, LAMBDA r :
        r.householdId = h /\ r.sourceHash = hash /\ ~r.deleted)

\* C27: whatever the interleaving of the uploads, at most one ReceiptRaw row
\* that is not deleted exists for a household and a sha256 of the bytes.
C27_UploadDeduplicated ==
    uploadsInUse =>
        \A h \in HouseholdIds, b \in FileBytes : Len(liveReceipts(h, sha256(b))) <= 1

\* an upload that finds the row of an earlier upload of its bytes answers
\* with that row and deduped = true, and the table keeps its rows
C27_LaterUploadDeduped ==
    [][\A p \in Uploads :
           (uploadsInUse /\ req[p].pc = "findExisting" /\ req'[p].pc # "findExisting"
            /\ Len(liveReceipts(req[p].householdId, sha256(req[p].buffer))) > 0)
           => /\ req'[p].res # None
              /\ req'[p].res[1].deduped
              /\ req'[p].res[1].receipt =
                     liveReceipts(req[p].householdId, sha256(req[p].buffer))[1].id
              /\ db' = db]_vars


\* the stitching loop has run on its own and has flushed
stitched == call.fn = "stitch" /\ call.done

\* C28: stitcher order preservation.  The logical lines joined in output
\* order are the raw lines joined in input order, up to the collapsing of
\* whitespace.
C28_OrderPreserved ==
    stitched =>
        normalized(JoinWith(call.logical, <<" ">>))
            = normalized(JoinWith(call.rawLines, <<" ">>))

\* three raw lines in two logical lines, one of them a join that collapsed
\* a run of spaces
C28_Witness ==
    /\ stitched
    /\ Len(call.rawLines) = 3
    /\ Len(call.logical) = 2
    /\ \E k \in 1..3 : call.rawLines[k] # normalized(call.rawLines[k])
    /\ \E j \in 1..2 : Len(call.parts[j]) = 2

\* what a raw line is for the stitcher
rawKind(l) ==
    IF isSeparator(l) THEN "separator"
    ELSE IF isDiscountRefRow(l) THEN "discountRef"
    ELSE IF hasUsableTotal(l) THEN "total"
    ELSE IF looksLikeSkuOrCode(l) \/ looksLikeWeightOrRate(l) THEN "continuation"
    ELSE "name"

\* the kinds of the raw lines logical line j was made of
kindsOf(j) == [m \in 1..Len(call.parts[j]) |-> rawKind(trim(call.rawLines[call.parts[j][m]]))]

\* C29: one item per logical line.  Every logical line is made of at most
\* one name-like raw line and at most one raw line that is a separator, a
\* discount reference or carries a total; a separator or a discount reference
\* is the first raw line of its logical line.
C29_OneItemPerLogicalLine ==
    call.fn = "stitch" =>
        /\ Len(call.parts) = Len(call.logical)
        /\ \A j \in 1..Len(call.parts) :
               /\ normalized(call.logical[j])
                      = normalized(JoinWith([m \in 1..Len(call.parts[j]) |->
                                                call.rawLines[call.parts[j][m]]], <<" ">>))
               /\ countOf(kindsOf(j), "name") <= 1
               /\ countOf(kindsOf(j), "separator") + countOf(kindsOf(j), "discountRef")
                      + countOf(kindsOf(j), "total") <= 1
               /\ \A m \in 1..Len(kindsOf(j)) :
                      kindsOf(j)[m] \in {"separator", "discountRef"} => m = 1

\* a name line flushed before a discount reference row, which then took a
\* continuation line
C29_Witness ==
    /\ stitched
    /\ Len(call.logical) = 2
    /\ kindsOf(1) = <<"name">>
    /\ kindsOf(2) = <<"discountRef", "continuation">>


\* C30: auto-accept needs a complete header.  With the default minimum
\* confidence of 0.85, a result with needsReview = false has its vendor, its
\* purchase date and its total resolved and at least 3 items; and with the
\* vendor or the date missing no lineCount and pricedLineCount bring the
\* score to 0.85.
C30_AutoAcceptNeedsHeader ==
    /\ (sc.state = "gated" /\ ~sc.needsReview) =>
           /\ sc.opts.hasVendor /\ sc.opts.hasDate /\ sc.opts.hasTotal
           /\ sc.opts.lineCount >= 3
    /\ (sc.state = "gated" /\ ~(sc.opts.hasVendor /\ sc.opts.hasDate)) =>
           /\ RLess(sc.score, <<85, 100>>)
           /\ sc.needsReview

\* a result that needs no review with exactly 3 items
C30_Witness ==
    /\ sc.state = "gated"
    /\ ~sc.needsReview
    /\ sc.opts.lineCount = 3

\* the best score without a vendor: total and date resolved, 8 items or
\* more, every item priced
C30_WitnessNoVendor ==
    /\ sc.state = "gated"
    /\ ~sc.opts.hasVendor /\ sc.opts.hasDate /\ sc.opts.hasTotal
    /\ sc.opts.lineCount >= 8
    /\ REq(sc.score, <<80, 100>>)
    /\ sc.needsReview


====
